---- MODULE Spec2Model ----
(***************************************************************************)
(* Model of atree's slab storage layer (PersistentSlabStorage over a       *)
(* BaseStorage): the deltas / cache / base layering, Commit, FastCommit    *)
(* with its encoder goroutines, DropDeltas, DropCache, Retrieve, Store and *)
(* Remove.                                                                 *)
(***************************************************************************)
EXTENDS Integers, Sequences, FiniteSets, Bags, TLC

\* ------------------------------------------------------------------------
\* Bounds of the model
\* ------------------------------------------------------------------------
\* number of public storage operations one behaviour starts
MaxOps == 4
\* FastCommit is called with numWorkers in 0..MaxWorkers
MaxWorkers == 2
\* a StorageIndex and tempStorageIndex are 64 bits wide; the model keeps
\* IndexBits of them, so that the counters reach their upper bound
IndexBits == 3
\* the map is given the keys 1..MaxKeys
MaxKeys == 4

\* ------------------------------------------------------------------------
\* Storage ids, slabs, encoded bytes
\* ------------------------------------------------------------------------
\* Address{} : the all-zero address, read as a big-endian uint64
AddressUndefined == 0

\* StorageID{Address, Index}, both read as big-endian unsigned integers.
\* One temporary id (undefined address) and three owned ids, chosen so that
\* ordering by address first differs from ordering by index first.
StorageIDs == {<<0, 1>>, <<1, 1>>, <<1, 2>>, <<2, 1>>}

AddressAsUint64(id) == id[1]

IndexAsUint64(id) == id[2]

\* a slab whose elements cannot be encoded (Encode returns an error)
BadBody == [kind |-> "bad"]

SlabBodies == {[kind |-> "a"], [kind |-> "b"], BadBody}

\* a slab in memory: header id and content
Slabs == [id : StorageIDs, body : SlabBodies]

\* the nil Slab stored in deltas by Remove (tombstone)
Nil == [id |-> <<0, 0>>, body |-> [kind |-> "nil"]]

\* Go maps are functions on the set of their keys
Has(m, k) == k \in DOMAIN m

Put(m, k, v) == [x \in (DOMAIN m) \cup {k} |-> IF x = k THEN v ELSE m[x]]

Delete(m, k) == [x \in (DOMAIN m) \ {k} |-> m[x]]

\* no segment in the base storage / nil []byte
NoData == <<>>

\* a nil error
NoError == [kind |-> "nil", id |-> <<0, 0>>]

\* the call has not returned yet
Running == [kind |-> "running", id |-> <<0, 0>>]

\* errors carry the id they were raised for
EncodingFailed(id) == [kind |-> "EncodingFailed", id |-> id]

DecodingFailed(id) == [kind |-> "DecodingFailed", id |-> id]

StorageFailed(id) == [kind |-> "StorageFailed", id |-> id]

\* ------------------------------------------------------------------------
\* Map slabs and their serialized form
\* ------------------------------------------------------------------------
\* a plain element, an inline collision group, an external collision group
SingleElement(k, v) == [kind |-> "single", key |-> k, value |-> v]

InlineCollisionGroup(elems) == [kind |-> "inline", elems |-> elems]

ExternalCollisionGroup(id) == [kind |-> "external", id |-> id]

\* one slot of a slab's sorted hkey array with its element
Entry(hkey, e) == [hkey |-> hkey, e |-> e]

\* the root's extra data: type info, element count, seed
ExtraData(typeInfo, count, seed) == [typeInfo |-> typeInfo, count |-> count, seed |-> seed]

\* variant: a data slab without the id of the next data slab
DataBodyNoNext(extra, next, elems) ==
    [kind |-> "data", extra |-> extra, next |-> <<AddressUndefined, AddressUndefined>>,
     elems |-> elems]

\* slab bodies; extra is <<>> for a slab that is not the root
DataBody(extra, next, elems) == [kind |-> "data", extra |-> extra, next |-> next, elems |-> elems]

MetaBody(extra, children) == [kind |-> "meta", extra |-> extra, children |-> children]

CollisionBody(level, elems) == [kind |-> "collision", level |-> level, elems |-> elems]

\* variant: the root bit is never set
FlagWithoutRoot(root, kind) ==
    IF kind = "data" THEN 8 ELSE IF kind = "meta" THEN 9 ELSE 32 + 11

\* the flag byte without its pointer bit: root 0x80, and the slab kind in the
\* low bits (map data 0x08, map meta 0x09, collision group 0x0b, which also
\* carries the any-size bit 0x20)
Flag(root, kind) ==
    (IF root THEN 128 ELSE 0)
    + (IF kind = "data" THEN 8 ELSE IF kind = "meta" THEN 9 ELSE 32 + 11)

\* StorageIDStorable: the id of a Storable slab in the place of a value.  The
\* values given to the map are positive; an id is written as the negative of
\* its 16 bytes read as one number.
IsStorageIDStorable(v) == v < 0

\* the has-pointer bit 0x40 of a slab whose elements refer to another slab
RECURSIVE HasPointer(_)
\* variant: only the id of a Storable slab counts, not an external group
HasPointerStorableOnly(elems) ==
    \E i \in 1..Len(elems) :
        \/ elems[i].e.kind = "single" /\ IsStorageIDStorable(elems[i].e.value)
        \/ elems[i].e.kind = "inline" /\ HasPointer(elems[i].e.elems)

HasPointer(elems) ==
    \E i \in 1..Len(elems) :
        \/ elems[i].e.kind = "external"
        \/ elems[i].e.kind = "single" /\ IsStorageIDStorable(elems[i].e.value)
        \/ elems[i].e.kind = "inline" /\ HasPointer(elems[i].e.elems)

PointerFlag(elems) == IF HasPointer(elems) THEN 64 ELSE 0

\* a map data body: (level, hkey array, element array); an element is a
\* (key, value) pair, an inline group's data body or an external group's id
RECURSIVE EncodeElements(_, _)
EncodeElements(level, elems) ==
    LET EncodeElement(e) ==
            IF e.kind = "single" THEN <<"Pair", <<e.key, e.value>>>>
            ELSE IF e.kind = "inline"
            THEN <<"TagInlineCollisionGroup", EncodeElements(level + 1, e.elems)>>
            ELSE <<"TagExternalCollisionGroup", e.id>>
    IN << <<level>>,
          [i \in 1..Len(elems) |-> elems[i].hkey],
          [i \in 1..Len(elems) |-> EncodeElement(elems[i].e)] >>

RECURSIVE DecodeElements(_)
DecodeElements(enc) ==
    LET DecodeElement(x) ==
            IF x[1] = "Pair" THEN SingleElement(x[2][1], x[2][2])
            ELSE IF x[1] = "TagInlineCollisionGroup"
            THEN InlineCollisionGroup(DecodeElements(x[2]))
            ELSE ExternalCollisionGroup(x[2])
    IN [i \in 1..Len(enc[2]) |-> Entry(enc[2][i], DecodeElement(enc[3][i]))]

\* Encode(slab, encMode): version byte 0, flag byte, body; a root slab is
\* preceded by its extra data; the slab's own id is not part of the bytes.
\* Fails for a slab whose content cannot be encoded.
CanEncode(slab) == slab.body.kind # "bad"

Encode(slab) ==
    LET body == slab.body
        flag == IF body.kind = "data"
                THEN Flag(body.extra # <<>>, "data") + PointerFlag(body.elems)
                ELSE IF body.kind = "meta" THEN Flag(body.extra # <<>>, "meta")
                ELSE Flag(FALSE, "collision") + PointerFlag(body.elems)
        extra == IF body.extra = <<>> THEN <<>>
                 ELSE <<0, flag,
                        <<body.extra[1].typeInfo, body.extra[1].count, body.extra[1].seed>> >>
    IN
    IF body.kind = "data" THEN
        extra \o <<0, flag, body.next, EncodeElements(0, body.elems)>>
    ELSE IF body.kind = "meta" THEN
        extra \o <<0, flag, <<Len(body.children)>>,
                   [i \in 1..Len(body.children) |->
                       <<body.children[i].id, body.children[i].firstKey, body.children[i].size>>]>>
    ELSE IF body.kind = "collision" THEN
        <<0, flag, <<0, 0>>, EncodeElements(body.level, body.elems)>>
    ELSE <<0, 0, body>>

\* DecodeSlab(id, data, ...): data shorter than version+flag, with another
\* version or of an unknown kind is rejected; the header id of the decoded
\* slab is the id passed in.
CanDecode(data) ==
    /\ Len(data) >= 2
    /\ data[1] = 0
    /\ \/ Len(data) = 3 /\ data[2] = 0
       \/ Len(data) \in {4, 7} /\ data[Len(data) - 2] % 16 \in {8, 9, 11}

DecodeSlab(id, data) ==
    IF Len(data) = 3 THEN [id |-> id, body |-> data[3]]
    ELSE
        LET n == Len(data)
            kind == data[n - 2] % 16
            extra == IF data[n - 2] >= 128 /\ n = 7
                     THEN <<ExtraData(data[3][1], data[3][2], data[3][3])>>
                     ELSE <<>>
        IN
        IF kind = 8 THEN
            [id |-> id, body |-> DataBody(extra, data[n - 1], DecodeElements(data[n]))]
        ELSE IF kind = 9 THEN
            [id |-> id,
             body |-> MetaBody(extra, [i \in 1..Len(data[n]) |->
                          [id |-> data[n][i][1], firstKey |-> data[n][i][2],
                           size |-> data[n][i][3]]])]
        ELSE [id |-> id, body |-> CollisionBody(data[n][1][1], DecodeElements(data[n]))]

\* make(map[StorageID]Slab)
EmptyMap == [id \in {} |-> Nil]

\* make(map[StorageID][]byte)
EmptySegments == [id \in {} |-> NoData]

\* seg, ok := s.segments[id]
Segment(b, id) == IF Has(b, id) THEN b[id] ELSE NoData

\* a call to the base storage: Store, Remove or Retrieve, and whether it succeeded
BaseCall(op, id, data, ok) == [op |-> op, id |-> id, data |-> data, ok |-> ok]

\* ------------------------------------------------------------------------
\* State
\* ------------------------------------------------------------------------
VARIABLES
    autoCommit,   \* PersistentSlabStorage.autoCommit
    baseStorage,  \* InMemBaseStorage.segments : id -> bytes
    cache,        \* PersistentSlabStorage.cache : id -> slab
    deltas,       \* PersistentSlabStorage.deltas : id -> slab or nil
    calls,        \* base-storage calls issued by the current / last operation
    ret,          \* what the last operation of the storage or of the map returned
    opCount,      \* operations started so far
    lastCommit,   \* history: View when the last commit succeeded, and whether a
                  \* commit has failed or the cache was dropped since
    pc,           \* where the caller is: "idle", or inside FastCommit
    fc,           \* locals of the running FastCommit call
    jobs,         \* FastCommit's jobs channel: buffer and closed flag
    results,      \* FastCommit's results channel: buffer and closed flag
    workers,      \* the encoder goroutines that have not exited: a bag of
                  \* positions, each with the job in hand
    tempStorageIndex, \* PersistentSlabStorage.tempStorageIndex
    storageIndex,     \* InMemBaseStorage.storageIndex : address -> last index
    generated,        \* history: the ids GenerateStorageID has returned
    genRet,           \* what the last GenerateStorageID returned
    mapRoot,      \* OrderedMap.root's id; StorageIDUndefined before NewMap
    ref,          \* history: the key-value dictionary kept beside the map
    committed,    \* history: count, type and elements when Commit last succeeded
    copied,       \* the storage and root of the map NewMapFromBatchData built
    loaded,       \* the storage filled by Load from the encoded slabs
    bdb,          \* basicDigesterBuilder: the seed k0, k1
    bd,           \* the basicDigester the builder handed out, NoDigester when none
    basicDigesterPool, \* the unused basicDigester objects kept for reuse
    digRet,       \* what the last call on the builder or the digester returned
    hashed,       \* history: the blake3.Sum256 calls made for the digester in hand
    lastPut,      \* history: the digester the caller last handed back, as it was then
    array,        \* the Array: its root id and the storage its slabs are in
    arrRet        \* what the last operation of the Array returned

storageVars == <<autoCommit, baseStorage, cache, deltas>>

fcVars == <<pc, fc, jobs, results, workers>>

\* the variables of the slab storage and its commit
slabVars == <<autoCommit, baseStorage, cache, deltas, calls, ret, opCount, lastCommit,
              pc, fc, jobs, results, workers>>

\* the variables of the id allocator
allocVars == <<tempStorageIndex, storageIndex, generated, genRet>>

\* the variables of the map and of its copies
mapVars == <<mapRoot, ref, committed, copied, loaded>>

\* the variables of the default digester
digestVars == <<bdb, bd, basicDigesterPool, digRet, hashed, lastPut>>

\* the variables of the array
arrayVars == <<array, arrRet>>

\* what the operations of the slab storage leave alone
outsideVars == <<allocVars, mapVars, digestVars, arrayVars>>

vars == <<slabVars, allocVars, mapVars, digestVars, arrayVars>>

\* a goroutine panicked: the process is gone
Panicked == \E w \in BagToSet(workers) : w.pc = "panic"

\* an encoder whose `range jobs` has ended (jobs closed and drained) and that
\* is about to exit; the exit touches nothing the caller or the other
\* encoders read, so it is taken before the caller's next operation
Exiting == \E w \in BagToSet(workers) : w.pc = "recv" /\ jobs.buf = <<>> /\ jobs.closed

\* the caller is between two storage operations
CallerIdle == pc = "idle" /\ ~Panicked /\ ~Exiting

\* ------------------------------------------------------------------------
\* Retrieve
\* ------------------------------------------------------------------------
RetrieveResult(id, slab, found, err) ==
    [op |-> "Retrieve", id |-> id, slab |-> slab, found |-> found, err |-> err]

\* variant: the read cache is consulted before deltas
RetrieveOutcomeCacheFirst(d, c, b, id, fail) ==
    IF Has(c, id) THEN
        [ret |-> RetrieveResult(id, c[id], TRUE, NoError), cache |-> c, calls |-> <<>>]
    ELSE IF Has(d, id) THEN
        [ret |-> RetrieveResult(id, d[id], d[id] # Nil, NoError), cache |-> c, calls |-> <<>>]
    ELSE IF fail THEN
        [ret |-> RetrieveResult(id, Nil, FALSE, StorageFailed(id)), cache |-> c,
         calls |-> <<BaseCall("Retrieve", id, NoData, FALSE)>>]
    ELSE IF ~CanDecode(Segment(b, id)) THEN
        [ret |-> RetrieveResult(id, Nil, Has(b, id), DecodingFailed(id)), cache |-> c,
         calls |-> <<BaseCall("Retrieve", id, Segment(b, id), TRUE)>>]
    ELSE
        [ret |-> RetrieveResult(id, DecodeSlab(id, Segment(b, id)), Has(b, id), NoError),
         cache |-> Put(c, id, DecodeSlab(id, Segment(b, id))),
         calls |-> <<BaseCall("Retrieve", id, Segment(b, id), TRUE)>>]

\* What Retrieve(id) does on deltas d, cache c, base b when the base call
\* fails or not: the result, the cache afterwards and the base calls issued.
RetrieveOutcome(d, c, b, id, fail) ==
    IF Has(d, id) THEN
        [ret |-> RetrieveResult(id, d[id], d[id] # Nil, NoError), cache |-> c, calls |-> <<>>]
    ELSE IF Has(c, id) THEN
        [ret |-> RetrieveResult(id, c[id], TRUE, NoError), cache |-> c, calls |-> <<>>]
    ELSE IF fail THEN
        [ret |-> RetrieveResult(id, Nil, FALSE, StorageFailed(id)), cache |-> c,
         calls |-> <<BaseCall("Retrieve", id, NoData, FALSE)>>]
    ELSE IF ~CanDecode(Segment(b, id)) THEN
        [ret |-> RetrieveResult(id, Nil, Has(b, id), DecodingFailed(id)), cache |-> c,
         calls |-> <<BaseCall("Retrieve", id, Segment(b, id), TRUE)>>]
    ELSE
        [ret |-> RetrieveResult(id, DecodeSlab(id, Segment(b, id)), Has(b, id), NoError),
         cache |-> Put(c, id, DecodeSlab(id, Segment(b, id))),
         calls |-> <<BaseCall("Retrieve", id, Segment(b, id), TRUE)>>]

Retrieve ==
    /\ CallerIdle
    /\ opCount < MaxOps
    /\ \E id \in StorageIDs, fail \in BOOLEAN :
        LET out == RetrieveOutcome(deltas, cache, baseStorage, id, fail) IN
        /\ fail => ~Has(deltas, id) /\ ~Has(cache, id)
        /\ cache' = out.cache
        /\ calls' = out.calls
        /\ ret' = out.ret
    /\ opCount' = opCount + 1
    /\ UNCHANGED <<autoCommit, baseStorage, deltas, lastCommit, fcVars>>
    /\ UNCHANGED outsideVars

\* what Retrieve returns for every id when no base call fails
View(d, c, b) == [id \in StorageIDs |-> RetrieveOutcome(d, c, b, id, FALSE).ret]

\* ------------------------------------------------------------------------
\* sortedOwnedDeltaKeys
\* ------------------------------------------------------------------------
\* variant: compares the index before the address
KeyLessIndexFirst(a, b) ==
    IF a[2] = b[2] THEN AddressAsUint64(a) < AddressAsUint64(b)
    ELSE IndexAsUint64(a) < IndexAsUint64(b)

\* the less function given to sort.Slice
KeyLess(a, b) ==
    IF a[1] = b[1] THEN IndexAsUint64(a) < IndexAsUint64(b)
    ELSE AddressAsUint64(a) < AddressAsUint64(b)

RECURSIVE InsertSorted(_, _)
InsertSorted(k, s) ==
    IF s = <<>> THEN <<k>>
    ELSE IF KeyLess(k, Head(s)) THEN <<k>> \o s
    ELSE <<Head(s)>> \o InsertSorted(k, Tail(s))

RECURSIVE SortSlice(_)
SortSlice(s) ==
    IF s = <<>> THEN <<>> ELSE InsertSorted(Head(s), SortSlice(Tail(s)))

\* the orders in which `for k := range m` may visit the keys of a map
MapOrders(S) ==
    {s \in [1..Cardinality(S) -> S] : \A i, j \in 1..Cardinality(S) : i # j => s[i] # s[j]}

\* variant: the owned keys in the order the map gave them
unsortedOwnedDeltaKeys(order) == SelectSeq(order, LAMBDA k : k[1] # AddressUndefined)

\* variant: all keys sorted, the keys without owner included
sortedDeltaKeys(order) == SortSlice(order)

\* order: the order in which ranging over deltas visited its keys
sortedOwnedDeltaKeys(order) ==
    SortSlice(SelectSeq(order, LAMBDA k : k[1] # AddressUndefined))

\* ------------------------------------------------------------------------
\* Commit
\* ------------------------------------------------------------------------
\* variant: the failing operation also drops the deltas
CallFailedDropsDeltas(st, op, id, data) ==
    [st EXCEPT !.calls = Append(@, BaseCall(op, id, data, FALSE)),
               !.err = StorageFailed(id),
               !.deltas = EmptyMap]

\* a base-storage call returned an error: the operation returns it
CallFailed(st, op, id, data) ==
    [st EXCEPT !.calls = Append(@, BaseCall(op, id, data, FALSE)),
               !.err = StorageFailed(id)]

\* s.baseStorage.Remove(id) succeeded
Removed(st, id) ==
    [st EXCEPT !.calls = Append(@, BaseCall("Remove", id, NoData, TRUE)),
               !.base = Delete(@, id)]

\* variant: the slab reaches the read cache only
CommitStoredCacheOnly(st, id, slab) ==
    [st EXCEPT !.calls = Append(@, BaseCall("Store", id, Encode(slab), TRUE)),
               !.cache = Put(@, id, slab)]

\* Commit: s.baseStorage.Store(id, data) succeeded, slab added to the read cache
CommitStored(st, id, slab) ==
    [st EXCEPT !.calls = Append(@, BaseCall("Store", id, Encode(slab), TRUE)),
               !.base = Put(@, id, Encode(slab)),
               !.cache = Put(@, id, slab)]

\* the end of Commit and FastCommit: s.deltas = make(map[StorageID]Slab)
ResetDeltas(st) == [st EXCEPT !.deltas = EmptyMap]

\* The loop of Commit over the remaining keys.  st holds deltas, cache, base,
\* the calls issued so far and the error returned; failAt is the number of
\* the base-storage call of this operation that fails (0: none fails).
RECURSIVE CommitLoop(_, _, _)
CommitLoop(keys, st, failAt) ==
    IF keys = <<>> THEN ResetDeltas(st)
    ELSE
        LET id == Head(keys)
            slab == st.deltas[id]
        IN  IF slab = Nil THEN
                IF failAt = Len(st.calls) + 1 THEN CallFailed(st, "Remove", id, NoData)
                ELSE CommitLoop(Tail(keys), Removed(st, id), failAt)
            ELSE IF ~CanEncode(slab) THEN
                [st EXCEPT !.err = EncodingFailed(id)]
            ELSE IF failAt = Len(st.calls) + 1 THEN CallFailed(st, "Store", id, Encode(slab))
            ELSE CommitLoop(Tail(keys), CommitStored(st, id, slab), failAt)

CommitState(d, c, b) == [deltas |-> d, cache |-> c, base |-> b, calls |-> <<>>, err |-> NoError]

CommitOutcome(d, c, b, order, failAt) ==
    CommitLoop(sortedOwnedDeltaKeys(order), CommitState(d, c, b), failAt)

\* the history after a commit attempt with outcome out
Committed(h, out) ==
    IF out.err = NoError
    THEN [view |-> View(out.deltas, out.cache, out.base), disturbed |-> FALSE]
    ELSE [h EXCEPT !.disturbed = TRUE]

\* retry: the call directly follows a Commit that returned an error
CommitResult(err, retry) == [op |-> "Commit", err |-> err, retry |-> retry]

\* Commit when ranging over deltas visits the keys in this order and the
\* failAt-th base-storage call fails
CommitWith(order, failAt) ==
    LET out == CommitOutcome(deltas, cache, baseStorage, order, failAt) IN
    /\ failAt <= Len(sortedOwnedDeltaKeys(order))
    /\ deltas' = out.deltas
    /\ cache' = out.cache
    /\ baseStorage' = out.base
    /\ calls' = out.calls
    /\ ret' = CommitResult(out.err, ret.op = "Commit" /\ ret.err # NoError)
    /\ lastCommit' = Committed(lastCommit, out)

Commit ==
    /\ CallerIdle
    /\ opCount < MaxOps
    /\ \E order \in MapOrders(DOMAIN deltas), failAt \in 0..Cardinality(StorageIDs) :
        CommitWith(order, failAt)
    /\ opCount' = opCount + 1
    /\ UNCHANGED <<autoCommit, fcVars>>
    /\ UNCHANGED outsideVars

\* ------------------------------------------------------------------------
\* DropDeltas, DropCache
\* ------------------------------------------------------------------------
\* dropped: how many entries deltas held
DropDeltasResult(dropped) == [op |-> "DropDeltas", err |-> NoError, dropped |-> dropped]

\* variant: the deltas are kept
DropDeltasKeeps ==
    /\ CallerIdle
    /\ opCount < MaxOps
    /\ calls' = <<>>
    /\ ret' = DropDeltasResult(Cardinality(DOMAIN deltas))
    /\ opCount' = opCount + 1
    /\ UNCHANGED <<autoCommit, baseStorage, cache, deltas, lastCommit, fcVars>>
    /\ UNCHANGED outsideVars

DropDeltas ==
    /\ CallerIdle
    /\ opCount < MaxOps
    /\ deltas' = EmptyMap
    /\ calls' = <<>>
    /\ ret' = DropDeltasResult(Cardinality(DOMAIN deltas))
    /\ opCount' = opCount + 1
    /\ UNCHANGED <<autoCommit, baseStorage, cache, lastCommit, fcVars>>
    /\ UNCHANGED outsideVars

DropCache ==
    /\ CallerIdle
    /\ opCount < MaxOps
    /\ cache' = EmptyMap
    /\ calls' = <<>>
    /\ ret' = [op |-> "DropCache", err |-> NoError]
    /\ lastCommit' = [lastCommit EXCEPT !.disturbed = TRUE]
    /\ opCount' = opCount + 1
    /\ UNCHANGED <<autoCommit, baseStorage, deltas, fcVars>>
    /\ UNCHANGED outsideVars

\* ------------------------------------------------------------------------
\* Store, Remove
\* ------------------------------------------------------------------------
StoreResult(id, err) == [op |-> "Store", id |-> id, err |-> err]

Store ==
    /\ CallerIdle
    /\ opCount < MaxOps
    /\ \E id \in StorageIDs, body \in SlabBodies, fail \in BOOLEAN :
        LET slab == [id |-> id, body |-> body] IN
        IF autoCommit THEN
            IF ~CanEncode(slab) THEN
                /\ ~fail
                /\ calls' = <<>>
                /\ ret' = StoreResult(id, EncodingFailed(id))
                /\ UNCHANGED <<baseStorage, cache, deltas>>
            ELSE IF fail THEN
                /\ calls' = <<BaseCall("Store", id, Encode(slab), FALSE)>>
                /\ ret' = StoreResult(id, StorageFailed(id))
                /\ UNCHANGED <<baseStorage, cache, deltas>>
            ELSE
                /\ calls' = <<BaseCall("Store", id, Encode(slab), TRUE)>>
                /\ baseStorage' = Put(baseStorage, id, Encode(slab))
                /\ cache' = Put(cache, id, slab)
                /\ ret' = StoreResult(id, NoError)
                /\ UNCHANGED deltas
        ELSE
            /\ ~fail
            /\ deltas' = Put(deltas, id, slab)
            /\ calls' = <<>>
            /\ ret' = StoreResult(id, NoError)
            /\ UNCHANGED <<baseStorage, cache>>
    /\ opCount' = opCount + 1
    /\ UNCHANGED <<autoCommit, lastCommit, fcVars>>
    /\ UNCHANGED outsideVars

RemoveResult(id, err) == [op |-> "Remove", id |-> id, err |-> err]

\* variant: Remove writes through to the base storage whatever autoCommit is
RemoveWriteThrough ==
    /\ CallerIdle
    /\ opCount < MaxOps
    /\ \E id \in StorageIDs :
        /\ calls' = <<BaseCall("Remove", id, NoData, TRUE)>>
        /\ baseStorage' = Delete(baseStorage, id)
        /\ deltas' = Put(deltas, id, Nil)
        /\ ret' = RemoveResult(id, NoError)
        /\ UNCHANGED cache
    /\ opCount' = opCount + 1
    /\ UNCHANGED <<autoCommit, lastCommit, fcVars>>
    /\ UNCHANGED outsideVars

Remove ==
    /\ CallerIdle
    /\ opCount < MaxOps
    /\ \E id \in StorageIDs, fail \in BOOLEAN :
        IF autoCommit /\ fail THEN
            /\ calls' = <<BaseCall("Remove", id, NoData, FALSE)>>
            /\ ret' = RemoveResult(id, StorageFailed(id))
            /\ UNCHANGED <<baseStorage, cache, deltas>>
        ELSE
            /\ ~fail
            /\ calls' = IF autoCommit THEN <<BaseCall("Remove", id, NoData, TRUE)>> ELSE <<>>
            /\ baseStorage' = IF autoCommit THEN Delete(baseStorage, id) ELSE baseStorage
            /\ deltas' = Put(deltas, id, Nil)
            /\ ret' = RemoveResult(id, NoError)
            /\ UNCHANGED cache
    /\ opCount' = opCount + 1
    /\ UNCHANGED <<autoCommit, lastCommit, fcVars>>
    /\ UNCHANGED outsideVars

\* ------------------------------------------------------------------------
\* FastCommit
\* ------------------------------------------------------------------------
Channel(buf, closed) == [buf |-> buf, closed |-> closed]

NoJob == <<0, 0>>

Worker(p, id, data, err) == [pc |-> p, id |-> id, data |-> data, err |-> err]

IdleFC ==
    [keysWithOwners |-> <<>>, encSlabByID |-> EmptySegments, i |-> 0, numWorkers |-> 0]

\* `go encoder(jobs, results)`, numWorkers times
Launch(numWorkers) ==
    IF numWorkers = 0 THEN EmptyBag
    ELSE [w \in {Worker("recv", NoJob, NoData, NoError)} |-> numWorkers]

\* the goroutines after one of them went from position w to position to
Moved(w, to) == (workers (-) SetToBag({w})) (+) SetToBag({to})

FastCommitResult(err, numWorkers) ==
    [op |-> "FastCommit", err |-> err, numWorkers |-> numWorkers]

\* keysWithOwners sorted, the job queue filled, the result queue made and
\* numWorkers encoders launched; the caller goes on to collect the results
FastCommitBegin ==
    /\ CallerIdle
    /\ opCount < MaxOps
    \* the encoders of an earlier call have all exited
    /\ workers = EmptyBag
    /\ \E order \in MapOrders(DOMAIN deltas), numWorkers \in 0..MaxWorkers :
        LET keys == sortedOwnedDeltaKeys(order) IN
        /\ fc' = [keysWithOwners |-> keys, encSlabByID |-> EmptySegments, i |-> 0,
                  numWorkers |-> numWorkers]
        /\ jobs' = Channel(keys, FALSE)
        /\ results' = Channel(<<>>, FALSE)
        /\ workers' = Launch(numWorkers)
        /\ ret' = FastCommitResult(Running, numWorkers)
    /\ pc' = "collect"
    /\ calls' = <<>>
    /\ opCount' = opCount + 1
    /\ UNCHANGED <<storageVars, lastCommit>>
    /\ UNCHANGED outsideVars

\* encoder: `for id := range jobs`, then read s.deltas[id] and Encode
WorkerRecv(w) ==
    /\ ~Panicked
    /\ w.pc = "recv"
    /\ IF jobs.buf # <<>> THEN
            LET id == Head(jobs.buf)
                slab == IF Has(deltas, id) THEN deltas[id] ELSE Nil
            IN  /\ jobs' = [jobs EXCEPT !.buf = Tail(@)]
                /\ workers' = Moved(w,
                        IF slab = Nil THEN Worker("send", id, NoData, NoError)
                        ELSE IF CanEncode(slab) THEN Worker("send", id, Encode(slab), NoError)
                        ELSE Worker("send", id, NoData, EncodingFailed(id)))
       ELSE
            /\ jobs.closed
            /\ workers' = workers (-) SetToBag({w})
            /\ UNCHANGED jobs
    /\ UNCHANGED <<storageVars, calls, ret, opCount, lastCommit, pc, fc, results>>
    /\ UNCHANGED outsideVars

\* encoder: `results <- &encodedSlabs{...}`; a send on a closed channel panics
WorkerSend(w) ==
    /\ ~Panicked
    /\ w.pc = "send"
    /\ IF results.closed THEN
            /\ workers' = Moved(w, [w EXCEPT !.pc = "panic"])
            /\ UNCHANGED results
       ELSE
            /\ results' = [results EXCEPT !.buf = Append(@,
                    [storageID |-> w.id, data |-> w.data, err |-> w.err])]
            /\ workers' = Moved(w, Worker("recv", NoJob, NoData, NoError))
    /\ UNCHANGED <<storageVars, calls, ret, opCount, lastCommit, pc, fc, jobs>>
    /\ UNCHANGED outsideVars

\* some encoder goroutine takes a step
EncoderRecv == \E w \in BagToSet(workers) : WorkerRecv(w)

EncoderSend == \E w \in BagToSet(workers) : WorkerSend(w)

\* caller: `result := <-results` in the collecting loop; an encoding error
\* returns at once, and the deferred calls close results and jobs
CallerCollect ==
    /\ ~Panicked
    /\ pc = "collect"
    /\ fc.i < Len(fc.keysWithOwners)
    /\ results.buf # <<>>
    /\ LET result == Head(results.buf) IN
        IF result.err # NoError THEN
            /\ pc' = "idle"
            /\ ret' = FastCommitResult(result.err, fc.numWorkers)
            /\ fc' = IdleFC
            /\ results' = Channel(Tail(results.buf), TRUE)
            /\ jobs' = [jobs EXCEPT !.closed = TRUE]
            /\ lastCommit' = [lastCommit EXCEPT !.disturbed = TRUE]
        ELSE
            /\ fc' = [fc EXCEPT !.encSlabByID = Put(@, result.storageID, result.data),
                                !.i = @ + 1]
            /\ results' = [results EXCEPT !.buf = Tail(@)]
            /\ UNCHANGED <<pc, ret, jobs, lastCommit>>
    /\ UNCHANGED <<storageVars, calls, opCount, workers>>
    /\ UNCHANGED outsideVars

\* variant: the stored slab is not added to the read cache
FastCommitStoredNoCache(st, id, data) ==
    [st EXCEPT !.calls = Append(@, BaseCall("Store", id, data, TRUE)),
               !.base = Put(@, id, data)]

\* FastCommit: s.baseStorage.Store(id, data) succeeded, s.cache[id] = s.deltas[id]
FastCommitStored(st, id, data) ==
    [st EXCEPT !.calls = Append(@, BaseCall("Store", id, data, TRUE)),
               !.base = Put(@, id, data),
               !.cache = Put(@, id, st.deltas[id])]

\* The loop of FastCommit that passes the collected results to the base
\* storage, over the remaining keys
RECURSIVE FastCommitLoop(_, _, _, _)
FastCommitLoop(keys, st, enc, failAt) ==
    IF keys = <<>> THEN ResetDeltas(st)
    ELSE
        LET id == Head(keys)
            data == Segment(enc, id)
        IN  IF data = NoData THEN
                IF failAt = Len(st.calls) + 1 THEN CallFailed(st, "Remove", id, NoData)
                ELSE FastCommitLoop(Tail(keys), Removed(st, id), enc, failAt)
            ELSE IF failAt = Len(st.calls) + 1 THEN CallFailed(st, "Store", id, data)
            ELSE FastCommitLoop(Tail(keys), FastCommitStored(st, id, data), enc, failAt)

\* caller: the base-storage calls in key order, the reset of deltas and the
\* return, with the deferred closes, once the collecting loop has ended
CallerApplyWhen(collected) ==
    /\ ~Panicked
    /\ pc = "collect"
    /\ collected
    /\ \E failAt \in 0..Len(fc.keysWithOwners) :
       LET out == FastCommitLoop(fc.keysWithOwners,
                      CommitState(deltas, cache, baseStorage), fc.encSlabByID, failAt)
       IN  /\ deltas' = out.deltas
           /\ cache' = out.cache
           /\ baseStorage' = out.base
           /\ calls' = out.calls
           /\ ret' = FastCommitResult(out.err, fc.numWorkers)
           /\ lastCommit' = Committed(lastCommit, out)
    /\ pc' = "idle"
    /\ fc' = IdleFC
    /\ results' = [results EXCEPT !.closed = TRUE]
    /\ jobs' = [jobs EXCEPT !.closed = TRUE]
    /\ UNCHANGED <<autoCommit, opCount, workers>>
    /\ UNCHANGED outsideVars

\* variant: the caller does not wait for the results
CallerApplyEarly == CallerApplyWhen(TRUE)

\* caller: all results are in (the loop `for i := 0; i < len(keysWithOwners)`
\* has ended)
CallerApply == CallerApplyWhen(fc.i = Len(fc.keysWithOwners))

\* ------------------------------------------------------------------------
\* GenerateStorageID
\* ------------------------------------------------------------------------
\* StorageIndex{} : the all-zero index
StorageIndexUndefined == 0

\* StorageID{} : undefined address and undefined index
StorageIDUndefined == <<AddressUndefined, StorageIndexUndefined>>

\* the addresses ids are generated for: the undefined one and two accounts
Addresses == {AddressUndefined, 1, 2}

\* 2^IndexBits: the number of values of a StorageIndex and of tempStorageIndex
RECURSIVE Pow2(_)
Pow2(n) == IF n = 0 THEN 1 ELSE 2 * Pow2(n - 1)

IndexModulus == Pow2(IndexBits)

\* StorageIndex.Next: i+1 in unsigned arithmetic of the index's width
StorageIndexNext(index) == (index + 1) % IndexModulus

NewStorageID(address, index) == <<address, index>>

\* StorageID.Valid: the error returned, "nil" for none
Valid(id) ==
    IF id = StorageIDUndefined THEN "ErrStorageID"
    ELSE IF id[2] = StorageIndexUndefined THEN "ErrStorageIndex"
    ELSE "nil"

\* index := s.storageIndex[address] : the zero index for a missing key
StorageIndexOf(si, address) == IF Has(si, address) THEN si[address] ELSE StorageIndexUndefined

\* base: whether the call went to the base storage's allocator
GenerateResult(address, id, base) ==
    [op |-> "GenerateStorageID", address |-> address, id |-> id, base |-> base]

\* InMemBaseStorage.GenerateStorageID
BaseGenerateStorageID(address) ==
    LET nextIndex == StorageIndexNext(StorageIndexOf(storageIndex, address)) IN
    /\ storageIndex' = Put(storageIndex, address, nextIndex)
    /\ genRet' = GenerateResult(address, NewStorageID(address, nextIndex), TRUE)
    /\ generated' = generated \cup {NewStorageID(address, nextIndex)}
    /\ UNCHANGED tempStorageIndex

\* PersistentSlabStorage.GenerateStorageID
GenerateStorageID(address) ==
    /\ IF address = AddressUndefined THEN
            /\ tempStorageIndex' = (tempStorageIndex + 1) % IndexModulus
            /\ genRet' = GenerateResult(address, NewStorageID(address, tempStorageIndex'), FALSE)
            /\ generated' = generated \cup {NewStorageID(address, tempStorageIndex')}
            /\ UNCHANGED storageIndex
       ELSE BaseGenerateStorageID(address)
    /\ UNCHANGED slabVars
    /\ UNCHANGED <<mapVars, digestVars, arrayVars>>

Generate == \E address \in Addresses : GenerateStorageID(address)

\* NewPersistentSlabStorage over NewInMemBaseStorage: no id generated yet
InitAlloc ==
    /\ tempStorageIndex = 0
    /\ storageIndex = [a \in {} |-> StorageIndexUndefined]
    /\ generated = {}
    /\ genRet = [op |-> "New", address |-> AddressUndefined, id |-> StorageIDUndefined,
                 base |-> FALSE]

\* ------------------------------------------------------------------------
\* Ordered map: keys, digests, elements
\* ------------------------------------------------------------------------
\* the keys and values given to the map
MapKeys == 1..MaxKeys

MapValues == {10, 20}

\* mockDigester.d for each key: keys 2 and 4 (and 1 and 6) have the same
\* digest at every level, keys 2, 3 and 4 the same digest at level 0 only
MockDigests ==
    << <<2, 1>>, <<1, 2>>, <<1, 1>>, <<1, 2>>, <<0, 5>>, <<2, 1>>, <<3, 0>>, <<1, 1>> >>

\* mockDigester.Levels
Levels(k) == Len(MockDigests[k])

\* variant: the digest of level 0 at every level
DigestOfLevel0(k, level) == MockDigests[k][1]

\* mockDigester.Digest
Digest(k, level) == MockDigests[k][level + 1]

\* mockDigester.DigestPrefix
DigestPrefix(k, level) == SubSeq(MockDigests[k], 1, level)

\* the slab size budget, in units of one plain (key, value) element
MaxThreshold == 3

MinThreshold == MaxThreshold \div 2

\* the cached byte size of an entry: a group costs its header and its entries
RECURSIVE EntrySize(_)
ElementsSize(elems) ==
    LET RECURSIVE Sum(_)
        Sum(i) == IF i = 0 THEN 0 ELSE EntrySize(elems[i]) + Sum(i - 1)
    IN Sum(Len(elems))

EntrySize(entry) ==
    IF entry.e.kind = "inline" THEN 1 + ElementsSize(entry.e.elems) ELSE 1

\* the position of hkey in a sorted hkey array, 0 when absent
HkeyIndex(elems, hkey) ==
    IF \E i \in 1..Len(elems) : elems[i].hkey = hkey
    THEN CHOOSE i \in 1..Len(elems) : elems[i].hkey = hkey
    ELSE 0

\* variant: the first entry is taken for the key, without compare
KeyIndexFirst(elems, k) == IF elems = <<>> THEN 0 ELSE 1

\* the position of key in a list-mode group, 0 when absent
KeyIndex(elems, k) ==
    IF \E i \in 1..Len(elems) : elems[i].e.key = k
    THEN CHOOSE i \in 1..Len(elems) : elems[i].e.key = k
    ELSE 0

\* insert into the sorted hkey array
InsertEntry(elems, entry) ==
    LET n == Cardinality({i \in 1..Len(elems) : elems[i].hkey < entry.hkey})
    IN SubSeq(elems, 1, n) \o <<entry>> \o SubSeq(elems, n + 1, Len(elems))

\* variant: the entry stays
RemoveAtKeeps(s, i) == s

RemoveAt(s, i) == SubSeq(s, 1, i - 1) \o SubSeq(s, i + 1, Len(s))

\* the address that owns the map's slabs
MapAddress == 1

\* the address given to NewMapFromBatchData
CopyAddress == 2

\* A slab storage as the map engine uses it: st.slabs is BasicSlabStorage's
\* Slabs, st.address the address of the map and st.index the storage's
\* storageIndex[st.address].
SlabStorage(slabs, index, address) ==
    [slabs |-> slabs, index |-> index, address |-> address]

\* the id the next GenerateStorageID(address) returns
NextID(st) == NewStorageID(st.address, StorageIndexNext(st.index))

\* variant: a slab already stored under the id is kept
StoreSlabOnce(st, id, body) ==
    IF Has(st.slabs, id) THEN st
    ELSE [st EXCEPT !.slabs = Put(@, id, [id |-> id, body |-> body])]

\* Store, Remove and GenerateStorageID of the storage
StoreSlab(st, id, body) == [st EXCEPT !.slabs = Put(@, id, [id |-> id, body |-> body])]

\* variant: the slab stays in the storage
RemoveSlabKeeps(st, id) == st

RemoveSlab(st, id) == [st EXCEPT !.slabs = Delete(@, id)]

\* the storage after GenerateStorageID(address)
Allocated(st) == [st EXCEPT !.index = StorageIndexNext(@)]

\* Set in the elements of one level.  Returns the storage, the elements and
\* the previous value (<<>> when the key was new).
RECURSIVE ElementsSet(_, _, _, _, _)
ElementsSet(st, elems, level, k, v) ==
    IF level >= Levels(k) THEN
        \* list mode: linear scan with compare, new keys appended
        LET i == KeyIndex(elems, k) IN
        IF i = 0
        THEN [st |-> st, elems |-> Append(elems, Entry(0, SingleElement(k, v))), old |-> <<>>]
        ELSE [st |-> st, elems |-> [elems EXCEPT ![i].e.value = v],
              old |-> <<elems[i].e.value>>]
    ELSE
        LET hkey == Digest(k, level)
            i == HkeyIndex(elems, hkey)
        IN
        IF i = 0 THEN
            [st |-> st, elems |-> InsertEntry(elems, Entry(hkey, SingleElement(k, v))),
             old |-> <<>>]
        ELSE IF elems[i].e.kind = "external" THEN
            LET id == elems[i].e.id
                r == ElementsSet(st, st.slabs[id].body.elems, level + 1, k, v)
            IN [st |-> StoreSlab(r.st, id, CollisionBody(level + 1, r.elems)),
                elems |-> elems, old |-> r.old]
        ELSE IF elems[i].e.kind = "single" /\ elems[i].e.key = k THEN
            [st |-> st, elems |-> [elems EXCEPT ![i].e.value = v], old |-> <<elems[i].e.value>>]
        ELSE
            \* a colliding plain element is first promoted to an inline group
            LET group == IF elems[i].e.kind = "inline" THEN elems[i].e.elems
                         ELSE ElementsSet(st, <<>>, level + 1,
                                          elems[i].e.key, elems[i].e.value).elems
                r == ElementsSet(st, group, level + 1, k, v)
                inline == Entry(hkey, InlineCollisionGroup(r.elems))
            IN
            IF EntrySize(inline) > MaxThreshold THEN
                \* the group moves to a slab of its own
                [st |-> StoreSlab(Allocated(r.st), NextID(r.st), CollisionBody(level + 1, r.elems)),
                 elems |-> [elems EXCEPT ![i] = Entry(hkey, ExternalCollisionGroup(NextID(r.st)))],
                 old |-> r.old]
            ELSE [st |-> r.st, elems |-> [elems EXCEPT ![i] = inline], old |-> r.old]

\* Get in the elements of one level: <<key, value>>, or <<>> when absent
RECURSIVE ElementsGet(_, _, _, _)
ElementsGet(slabs, elems, level, k) ==
    IF level >= Levels(k) THEN
        LET i == KeyIndex(elems, k) IN
        IF i = 0 THEN <<>> ELSE <<k, elems[i].e.value>>
    ELSE
        LET i == HkeyIndex(elems, Digest(k, level)) IN
        IF i = 0 THEN <<>>
        ELSE IF elems[i].e.kind = "single" THEN
            IF elems[i].e.key = k THEN <<k, elems[i].e.value>> ELSE <<>>
        ELSE IF elems[i].e.kind = "inline" THEN
            ElementsGet(slabs, elems[i].e.elems, level + 1, k)
        ELSE ElementsGet(slabs, slabs[elems[i].e.id].body.elems, level + 1, k)

\* Remove in the elements of one level.  Returns the storage, the elements
\* and the removed <<key, value>> (<<>> when the key was absent).
RECURSIVE ElementsRemove(_, _, _, _)
ElementsRemove(st, elems, level, k) ==
    IF level >= Levels(k) THEN
        LET i == KeyIndex(elems, k) IN
        IF i = 0 THEN [st |-> st, elems |-> elems, old |-> <<>>]
        ELSE [st |-> st, elems |-> RemoveAt(elems, i), old |-> <<k, elems[i].e.value>>]
    ELSE
        LET i == HkeyIndex(elems, Digest(k, level)) IN
        IF i = 0 THEN [st |-> st, elems |-> elems, old |-> <<>>]
        ELSE IF elems[i].e.kind = "single" THEN
            IF elems[i].e.key = k
            THEN [st |-> st, elems |-> RemoveAt(elems, i), old |-> <<k, elems[i].e.value>>]
            ELSE [st |-> st, elems |-> elems, old |-> <<>>]
        ELSE IF elems[i].e.kind = "inline" THEN
            LET r == ElementsRemove(st, elems[i].e.elems, level + 1, k) IN
            IF Len(r.elems) = 1 /\ r.elems[1].e.kind = "single" THEN
                \* one element left: the group collapses to a plain entry
                [st |-> r.st, elems |-> [elems EXCEPT ![i].e = r.elems[1].e], old |-> r.old]
            ELSE [st |-> r.st, elems |-> [elems EXCEPT ![i].e.elems = r.elems], old |-> r.old]
        ELSE
            LET id == elems[i].e.id
                r == ElementsRemove(st, st.slabs[id].body.elems, level + 1, k)
            IN
            IF r.old = <<>> THEN [st |-> st, elems |-> elems, old |-> <<>>]
            ELSE IF r.elems = <<>> THEN
                \* the last element left the group: its slab is deleted
                [st |-> RemoveSlab(r.st, id), elems |-> RemoveAt(elems, i), old |-> r.old]
            ELSE [st |-> StoreSlab(r.st, id, CollisionBody(level + 1, r.elems)),
                  elems |-> elems, old |-> r.old]

\* the <<key, value>> pairs of the elements of one level, in stored order
RECURSIVE ElementsIterate(_, _)
ElementsIterate(slabs, elems) ==
    IF elems = <<>> THEN <<>>
    ELSE LET e == Head(elems).e
             first == IF e.kind = "single" THEN << <<e.key, e.value>> >>
                      ELSE IF e.kind = "inline" THEN ElementsIterate(slabs, e.elems)
                      ELSE ElementsIterate(slabs, slabs[e.id].body.elems)
         IN first \o ElementsIterate(slabs, Tail(elems))

\* ------------------------------------------------------------------------
\* Ordered map: data slabs, meta slabs, the public operations
\* ------------------------------------------------------------------------
\* the header a meta slab keeps of a child: id, first hkey, byte size
ChildHeader(id, elems) ==
    [id |-> id, firstKey |-> IF elems = <<>> THEN 0 ELSE elems[1].hkey, size |-> ElementsSize(elems)]

\* variant: every Set counts as a new key
CountedEverySet(extra, delta) ==
    <<[extra[1] EXCEPT !.count = IF delta = 0 THEN @ + 1 ELSE @ + delta]>>

\* the extra data with the count changed by delta
Counted(extra, delta) == <<[extra[1] EXCEPT !.count = @ + delta]>>

\* the child whose hkey range holds hkey: the last one that starts at or
\* before hkey, the first child for a smaller hkey
ChildIndex(children, hkey) ==
    LET below == {i \in 1..Len(children) : children[i].firstKey <= hkey}
    IN IF below = {} THEN 1 ELSE CHOOSE i \in below : \A j \in below : j <= i

\* where an overflowing slab is cut: the first boundary at which the left
\* part holds half of the bytes, both parts keeping an entry
SplitIndex(elems) ==
    LET ok == {i \in 1..(Len(elems) - 1) :
                   2 * ElementsSize(SubSeq(elems, 1, i)) >= ElementsSize(elems)}
    IN IF ok = {} THEN Len(elems) - 1 ELSE CHOOSE i \in ok : \A j \in ok : i <= j

Overflows(elems) == ElementsSize(elems) > MaxThreshold /\ Len(elems) >= 2

\* NewMap: a root data slab without elements under a new id
NewMap(st, typeInfo, seed) ==
    StoreSlab(Allocated(st), NextID(st),
              DataBody(<<ExtraData(typeInfo, 0, seed)>>, StorageIDUndefined, <<>>))

\* OrderedMap.Set.  Returns the storage and the previous value.
MapSet(st, root, k, v) ==
    LET body == st.slabs[root].body IN
    IF body.kind = "data" THEN
        LET r == ElementsSet(st, body.elems, 0, k, v)
            extra == Counted(body.extra, IF r.old = <<>> THEN 1 ELSE 0)
        IN
        IF Overflows(r.elems) THEN
            \* the root splits: two new data slabs under a meta root
            LET cut == SplitIndex(r.elems)
                l == SubSeq(r.elems, 1, cut)
                h == SubSeq(r.elems, cut + 1, Len(r.elems))
                lid == NextID(r.st)
                hid == NextID(Allocated(r.st))
                st1 == StoreSlab(Allocated(Allocated(r.st)), lid, DataBody(<<>>, hid, l))
                st2 == StoreSlab(st1, hid, DataBody(<<>>, StorageIDUndefined, h))
            IN [st |-> StoreSlab(st2, root,
                                 MetaBody(extra, <<ChildHeader(lid, l), ChildHeader(hid, h)>>)),
                old |-> r.old]
        ELSE [st |-> StoreSlab(r.st, root, DataBody(extra, body.next, r.elems)), old |-> r.old]
    ELSE
        LET ci == ChildIndex(body.children, Digest(k, 0))
            cid == body.children[ci].id
            child == st.slabs[cid].body
            r == ElementsSet(st, child.elems, 0, k, v)
            extra == Counted(body.extra, IF r.old = <<>> THEN 1 ELSE 0)
        IN
        IF Overflows(r.elems) THEN
            \* the child splits: its upper part moves to a new data slab
            LET cut == SplitIndex(r.elems)
                l == SubSeq(r.elems, 1, cut)
                h == SubSeq(r.elems, cut + 1, Len(r.elems))
                hid == NextID(r.st)
                st1 == StoreSlab(Allocated(r.st), cid, DataBody(<<>>, hid, l))
                st2 == StoreSlab(st1, hid, DataBody(<<>>, child.next, h))
                children == SubSeq(body.children, 1, ci - 1)
                            \o <<ChildHeader(cid, l), ChildHeader(hid, h)>>
                            \o SubSeq(body.children, ci + 1, Len(body.children))
            IN [st |-> StoreSlab(st2, root, MetaBody(extra, children)), old |-> r.old]
        ELSE
            LET st1 == StoreSlab(r.st, cid, DataBody(<<>>, child.next, r.elems))
                children == [body.children EXCEPT ![ci] = ChildHeader(cid, r.elems)]
            IN [st |-> StoreSlab(st1, root, MetaBody(extra, children)), old |-> r.old]

\* OrderedMap.Get: <<key, value>>, or <<>> for KeyNotFound
MapGet(slabs, root, k) ==
    LET body == slabs[root].body IN
    IF body.kind = "data" THEN ElementsGet(slabs, body.elems, 0, k)
    ELSE ElementsGet(slabs,
                     slabs[body.children[ChildIndex(body.children, Digest(k, 0))].id].body.elems,
                     0, k)

\* OrderedMap.Count and OrderedMap.Type: read from the root's extra data
MapCount(slabs, root) == slabs[root].body.extra[1].count

MapType(slabs, root) == slabs[root].body.extra[1].typeInfo

\* the data slabs from id on, following next
RECURSIVE LeafChain(_, _)
LeafChain(slabs, id) ==
    IF id = StorageIDUndefined THEN <<>>
    ELSE <<id>> \o LeafChain(slabs, slabs[id].body.next)

FirstLeaf(slabs, root) ==
    IF slabs[root].body.kind = "data" THEN root ELSE slabs[root].body.children[1].id

\* OrderedMap.Iterate: the <<key, value>> pairs the visitor is given
MapIterate(slabs, root) ==
    LET chain == LeafChain(slabs, FirstLeaf(slabs, root))
        RECURSIVE Walk(_)
        Walk(i) == IF i > Len(chain) THEN <<>>
                   ELSE ElementsIterate(slabs, slabs[chain[i]].body.elems) \o Walk(i + 1)
    IN Walk(1)

\* how many entries the child at position from hands to its underflowing
\* neighbour (taken from the end that faces the neighbour) so that the
\* neighbour reaches MinThreshold; 0 when from would underflow itself
Lend(elems, need, fromLeft) ==
    LET n == Len(elems)
        Part(j) == IF fromLeft THEN SubSeq(elems, n - j + 1, n) ELSE SubSeq(elems, 1, j)
        ok == {j \in 1..n : /\ ElementsSize(Part(j)) >= need
                            /\ ElementsSize(elems) - ElementsSize(Part(j)) >= MinThreshold}
    IN IF ok = {} THEN 0 ELSE CHOOSE j \in ok : \A i \in ok : j <= i

\* The meta root after its child ci was left with elems below MinThreshold:
\* borrow from the larger sibling, or merge with it when it cannot lend;
\* a root left with one child is replaced by that child.
Rebalance(st, root, extra, children, ci, elems) ==
    LET n == Len(children)
        si == IF ci = 1 THEN 2
              ELSE IF ci = n THEN n - 1
              ELSE IF children[ci - 1].size > children[ci + 1].size THEN ci - 1 ELSE ci + 1
        lo == IF si < ci THEN si ELSE ci
        lid == children[lo].id
        hid == children[lo + 1].id
        sib == st.slabs[children[si].id].body
        j == Lend(sib.elems, MinThreshold - ElementsSize(elems), si < ci)
        m == Len(sib.elems)
        \* the elements of the lower and of the higher slab of the pair
        l == IF j = 0 THEN (IF si < ci THEN sib.elems \o elems ELSE elems \o sib.elems)
             ELSE IF si < ci THEN SubSeq(sib.elems, 1, m - j)
             ELSE elems \o SubSeq(sib.elems, 1, j)
        h == IF j = 0 THEN <<>>
             ELSE IF si < ci THEN SubSeq(sib.elems, m - j + 1, m) \o elems
             ELSE SubSeq(sib.elems, j + 1, m)
        hnext == st.slabs[hid].body.next
    IN
    IF j > 0 THEN
        LET st1 == StoreSlab(st, lid, DataBody(<<>>, hid, l))
            st2 == StoreSlab(st1, hid, DataBody(<<>>, hnext, h))
            moved == [children EXCEPT ![lo] = ChildHeader(lid, l),
                                      ![lo + 1] = ChildHeader(hid, h)]
        IN StoreSlab(st2, root, MetaBody(extra, moved))
    ELSE IF n = 2 THEN
        \* the only child left becomes the root data slab
        StoreSlab(RemoveSlab(RemoveSlab(st, lid), hid), root,
                  DataBody(extra, StorageIDUndefined, l))
    ELSE
        LET st1 == StoreSlab(RemoveSlab(st, hid), lid, DataBody(<<>>, hnext, l))
            merged == SubSeq(children, 1, lo - 1) \o <<ChildHeader(lid, l)>>
                      \o SubSeq(children, lo + 2, n)
        IN StoreSlab(st1, root, MetaBody(extra, merged))

\* OrderedMap.Remove.  Returns the storage and the removed <<key, value>>
\* (<<>> for KeyNotFound, the storage then being as it was).
MapRemove(st, root, k) ==
    LET body == st.slabs[root].body IN
    IF body.kind = "data" THEN
        LET r == ElementsRemove(st, body.elems, 0, k) IN
        IF r.old = <<>> THEN [st |-> st, old |-> <<>>]
        ELSE [st |-> StoreSlab(r.st, root, DataBody(Counted(body.extra, -1), body.next, r.elems)),
              old |-> r.old]
    ELSE
        LET ci == ChildIndex(body.children, Digest(k, 0))
            cid == body.children[ci].id
            child == st.slabs[cid].body
            r == ElementsRemove(st, child.elems, 0, k)
            extra == Counted(body.extra, -1)
        IN
        IF r.old = <<>> THEN [st |-> st, old |-> <<>>]
        ELSE IF ElementsSize(r.elems) < MinThreshold THEN
            [st |-> Rebalance(r.st, root, extra, body.children, ci, r.elems), old |-> r.old]
        ELSE
            LET st1 == StoreSlab(r.st, cid, DataBody(<<>>, child.next, r.elems))
                children == [body.children EXCEPT ![ci] = ChildHeader(cid, r.elems)]
            IN [st |-> StoreSlab(st1, root, MetaBody(extra, children)), old |-> r.old]

\* the ids of the external collision groups below the elements of one level
RECURSIVE ExternalIDs(_, _)
ExternalIDs(slabs, elems) ==
    IF elems = <<>> THEN {}
    ELSE LET e == Head(elems).e
             first == IF e.kind = "external"
                      THEN {e.id} \cup ExternalIDs(slabs, slabs[e.id].body.elems)
                      ELSE IF e.kind = "inline" THEN ExternalIDs(slabs, e.elems)
                      ELSE {}
         IN first \cup ExternalIDs(slabs, Tail(elems))

\* the slabs of the map with this root: root, data slabs, collision slabs
MapSlabIDs(slabs, root) ==
    LET chain == LeafChain(slabs, FirstLeaf(slabs, root))
    IN {root} \cup {chain[i] : i \in 1..Len(chain)}
       \cup UNION {ExternalIDs(slabs, slabs[chain[i]].body.elems) : i \in 1..Len(chain)}

Reverse(s) == [i \in 1..Len(s) |-> s[Len(s) + 1 - i]]

\* Remove of every slab of ids
RECURSIVE RemoveSlabs(_, _)
RemoveSlabs(st, ids) ==
    IF ids = {} THEN st
    ELSE LET id == CHOOSE id \in ids : TRUE
         IN RemoveSlabs(RemoveSlab(st, id), ids \ {id})

\* OrderedMap.PopIterate: every element goes to the visitor, last one first,
\* and every slab but the root is removed; the root is left an empty data slab
MapPopIterate(st, root) ==
    LET extra == st.slabs[root].body.extra IN
    [st |-> StoreSlab(RemoveSlabs(st, MapSlabIDs(st.slabs, root) \ {root}), root,
                      DataBody(<<[extra[1] EXCEPT !.count = 0]>>, StorageIDUndefined, <<>>)),
     visited |-> Reverse(MapIterate(st.slabs, root))]

\* ------------------------------------------------------------------------
\* The map over the persistent slab storage
\* ------------------------------------------------------------------------
\* testTypeInfo{42}
testTypeInfo == [value |-> 42]

\* the seed NewMap stores in the root's extra data
MapSeed == <<7, 9>>

KeyNotFoundError(k) == [kind |-> "KeyNotFound", id |-> StorageIDUndefined, key |-> k]

SlabNotFoundError(id) == [kind |-> "SlabNotFound", id |-> id]

\* the slabs Retrieve finds in the persistent storage, by id
PersistentSlabs(d, c, b) ==
    LET Ret(id) == RetrieveOutcome(d, c, b, id, FALSE).ret
        found == {id \in DOMAIN d \cup DOMAIN c \cup DOMAIN b :
                    Ret(id).found /\ Ret(id).err = NoError}
    IN [id \in found |-> Ret(id).slab]

\* the persistent storage as the map engine uses it
OpenStorage ==
    SlabStorage(PersistentSlabs(deltas, cache, baseStorage),
                StorageIndexOf(storageIndex, MapAddress), MapAddress)

\* Retrieve of each id of ids in turn: the cache afterwards and the base
\* calls issued
RECURSIVE RetrieveAll(_, _, _, _)
RetrieveAll(d, c, b, ids) ==
    IF ids = <<>> THEN [cache |-> c, calls |-> <<>>]
    ELSE LET out == RetrieveOutcome(d, c, b, Head(ids), FALSE)
             rest == RetrieveAll(d, out.cache, b, Tail(ids))
         IN [cache |-> rest.cache, calls |-> out.calls \o rest.calls]

\* deltas after the map engine's Store and Remove calls that turned the
\* slabs before into the slabs after
StoredDeltas(d, before, after) ==
    LET stored == {id \in DOMAIN after : ~Has(before, id) \/ after[id] # before[id]}
        removed == DOMAIN before \ DOMAIN after
    IN [id \in DOMAIN d \cup stored \cup removed |->
            IF id \in removed THEN Nil
            ELSE IF id \in stored THEN after[id]
            ELSE d[id]]

\* the map engine's Store, Remove and GenerateStorageID calls reach the storage
WriteBack(before, after) ==
    /\ after.index >= before.index
    /\ deltas' = StoredDeltas(deltas, before.slabs, after.slabs)
    /\ storageIndex' = IF after.index = before.index THEN storageIndex
                       ELSE Put(storageIndex, MapAddress, after.index)

\* the slabs Get and Remove retrieve on their way to key k, in order
RECURSIVE ElementsReads(_, _, _, _)
ElementsReads(slabs, elems, level, k) ==
    IF level >= Levels(k) THEN <<>>
    ELSE
        LET i == HkeyIndex(elems, Digest(k, level)) IN
        IF i = 0 \/ elems[i].e.kind = "single" THEN <<>>
        ELSE IF elems[i].e.kind = "inline" THEN
            ElementsReads(slabs, elems[i].e.elems, level + 1, k)
        ELSE <<elems[i].e.id>>
             \o ElementsReads(slabs, slabs[elems[i].e.id].body.elems, level + 1, k)

MapReads(slabs, root, k) ==
    LET body == slabs[root].body IN
    IF body.kind = "data" THEN <<root>> \o ElementsReads(slabs, body.elems, 0, k)
    ELSE LET leaf == body.children[ChildIndex(body.children, Digest(k, 0))].id
         IN <<root, leaf>> \o ElementsReads(slabs, slabs[leaf].body.elems, 0, k)

\* no map has been built from batch data, no slabs loaded, nothing committed
NoCopy == [root |-> StorageIDUndefined]

NotLoaded == [root |-> StorageIDUndefined]

NotCommitted == [count |-> 0, committed |-> FALSE]

\* the dictionary without keys
EmptyDict == [k \in {} |-> 0]

\* the map exists and its root is in the storage
MapOpen == mapRoot # StorageIDUndefined /\ Has(OpenStorage.slabs, mapRoot)

\* nothing but the map's operations has happened to it: no commit, no copy
Uncommitted == baseStorage = EmptySegments /\ copied = NoCopy /\ loaded = NotLoaded

\* the history after an operation that left the map's storage alone
MapUntouched == UNCHANGED <<autoCommit, baseStorage, opCount, lastCommit,
                            fcVars, tempStorageIndex, generated, genRet,
                            digestVars, arrayVars>>

\* NewMap(storage, address, digesterBuilder, typeInfo)
OrderedMapNew ==
    /\ CallerIdle
    /\ ~autoCommit
    /\ mapRoot = StorageIDUndefined
    /\ \E st \in {OpenStorage} : \E out \in {NewMap(st, testTypeInfo, MapSeed)} :
          /\ WriteBack(st, out)
          /\ mapRoot' = NextID(st)
          /\ ret' = [op |-> "NewMap", err |-> NoError]
    /\ ref' = EmptyDict
    /\ calls' = <<>>
    /\ UNCHANGED <<cache, committed, copied, loaded>>
    /\ MapUntouched

\* m.Set(compare, hashInputProvider, k, v)
OrderedMapSet(k, v) ==
    /\ CallerIdle
    /\ MapOpen
    /\ Uncommitted
    /\ \E st \in {OpenStorage} : \E out \in {MapSet(st, mapRoot, k, v)} :
          /\ WriteBack(st, out.st)
          /\ ret' = [op |-> "Set", key |-> k, value |-> v, old |-> out.old,
                     err |-> NoError]
    /\ ref' = Put(ref, k, v)
    /\ calls' = <<>>
    /\ UNCHANGED <<cache, mapRoot, committed, copied, loaded>>
    /\ MapUntouched

\* m.Remove(compare, hashInputProvider, k)
OrderedMapRemove(k) ==
    /\ CallerIdle
    /\ MapOpen
    /\ \E st \in {OpenStorage} : \E out \in {MapRemove(st, mapRoot, k)} :
          /\ Uncommitted \/ out.old = <<>>
          /\ WriteBack(st, out.st)
          /\ LET read == RetrieveAll(deltas, cache, baseStorage,
                                     MapReads(st.slabs, mapRoot, k))
             IN cache' = read.cache /\ calls' = read.calls
          /\ ret' = IF out.old = <<>>
                    THEN [op |-> "Remove", key |-> k, old |-> <<>>,
                          err |-> KeyNotFoundError(k)]
                    ELSE [op |-> "Remove", key |-> k, old |-> out.old, err |-> NoError]
    /\ ref' = Delete(ref, k)
    /\ UNCHANGED <<mapRoot, committed, copied, loaded>>
    /\ MapUntouched

\* m.PopIterate(fn)
OrderedMapPopIterate ==
    /\ CallerIdle
    /\ MapOpen
    /\ Uncommitted
    /\ \E st \in {OpenStorage} : \E out \in {MapPopIterate(st, mapRoot)} :
          /\ WriteBack(st, out.st)
          /\ ret' = [op |-> "PopIterate", visited |-> out.visited, err |-> NoError]
    /\ ref' = EmptyDict
    /\ calls' = <<>>
    /\ UNCHANGED <<cache, mapRoot, committed, copied, loaded>>
    /\ MapUntouched

\* what the map shows: count, type and the elements Iterate visits
Shown(slabs, root) ==
    [count |-> MapCount(slabs, root), typeInfo |-> MapType(slabs, root),
     elems |-> MapIterate(slabs, root), committed |-> TRUE]

\* storage.Commit() with a base storage whose calls succeed.  The order in
\* which deltas is ranged over is one of MapOrders(DOMAIN deltas).
RECURSIVE AnyOrder(_)
AnyOrder(S) ==
    IF S = {} THEN <<>>
    ELSE LET x == CHOOSE x \in S : TRUE IN <<x>> \o AnyOrder(S \ {x})

MapCommit ==
    /\ CallerIdle
    /\ MapOpen
    /\ copied = NoCopy /\ loaded = NotLoaded
    /\ deltas # EmptyMap
    /\ CommitWith(AnyOrder(DOMAIN deltas), 0)
    /\ committed' = Shown(OpenStorage.slabs, mapRoot)
    /\ UNCHANGED <<autoCommit, opCount, fcVars, allocVars, digestVars, arrayVars>>
    /\ UNCHANGED <<mapRoot, ref, copied, loaded>>

\* storage.DropCache() and storage.DropDeltas() after the commit
MapDropCache == committed # NotCommitted /\ cache # EmptyMap /\ DropCache

MapDropDeltas == committed # NotCommitted /\ ret.op = "DropCache" /\ DropDeltas

\* NewMapWithRootID(storage, rootID, digesterBuilder)
OrderedMapOpen ==
    /\ CallerIdle
    /\ mapRoot # StorageIDUndefined
    /\ committed # NotCommitted
    /\ LET out == RetrieveOutcome(deltas, cache, baseStorage, mapRoot, FALSE) IN
       /\ cache' = out.cache
       /\ calls' = out.calls
       /\ ret' = IF out.ret.found
                 THEN [op |-> "NewMapWithRootID", err |-> out.ret.err,
                       count |-> out.ret.slab.body.extra[1].count,
                       typeInfo |-> out.ret.slab.body.extra[1].typeInfo]
                 ELSE [op |-> "NewMapWithRootID", err |-> SlabNotFoundError(mapRoot)]
    /\ UNCHANGED <<deltas, storageIndex, mapRoot, ref, committed, copied, loaded>>
    /\ MapUntouched

\* the longest run of leading entries that fits one data slab, at least n
RECURSIVE Fill(_, _)
Fill(elems, n) ==
    IF n < Len(elems) /\ ElementsSize(SubSeq(elems, 1, n + 1)) <= MaxThreshold
    THEN Fill(elems, n + 1)
    ELSE n

\* the entries cut into data slabs filled up to MaxThreshold
RECURSIVE Leaves(_)
Leaves(elems) ==
    IF elems = <<>> THEN <<>>
    ELSE LET n == Fill(elems, 1)
         IN <<SubSeq(elems, 1, n)>> \o Leaves(SubSeq(elems, n + 1, Len(elems)))

\* variant: the last pair the iterator hands over is left out
RECURSIVE BatchElementsButLast(_, _, _)
BatchElementsButLast(st, elems, items) ==
    IF Len(items) <= 1 THEN [st |-> st, elems |-> elems]
    ELSE LET r == ElementsSet(st, elems, 0, Head(items)[1], Head(items)[2])
         IN BatchElementsButLast(r.st, r.elems, Tail(items))

\* the elements built from the pairs the source's iterator hands over
RECURSIVE BatchElements(_, _, _)
BatchElements(st, elems, items) ==
    IF items = <<>> THEN [st |-> st, elems |-> elems]
    ELSE LET r == ElementsSet(st, elems, 0, Head(items)[1], Head(items)[2])
         IN BatchElements(r.st, r.elems, Tail(items))

\* NewMapFromBatchData(storage, address, digesterBuilder, typeInfo, compare,
\* hashInputProvider, seed, fn): the map is built bottom-up, data slabs
\* first, then the root above them
MapFromBatchData(st, typeInfo, seed, items) ==
    LET root == NextID(st)
        filled == BatchElements(Allocated(st), <<>>, items)
        leaves == Leaves(filled.elems)
        extra == <<ExtraData(typeInfo, Len(items), seed)>>
        LeafID(i) == NewStorageID(st.address, filled.st.index + i)
        RECURSIVE Link(_, _)
        Link(s, i) ==
            IF i > Len(leaves) THEN s
            ELSE Link(StoreSlab(Allocated(s), LeafID(i),
                                DataBody(<<>>,
                                         IF i = Len(leaves) THEN StorageIDUndefined
                                         ELSE LeafID(i + 1),
                                         leaves[i])),
                      i + 1)
    IN  IF Len(leaves) <= 1 THEN
            [root |-> root,
             st |-> StoreSlab(filled.st, root,
                              DataBody(extra, StorageIDUndefined, filled.elems))]
        ELSE
            [root |-> root,
             st |-> StoreSlab(Link(filled.st, 1), root,
                              MetaBody(extra, [i \in 1..Len(leaves) |->
                                                  ChildHeader(LeafID(i), leaves[i])]))]

\* BasicSlabStorage.Encode
BasicEncode(slabs) == [id \in DOMAIN slabs |-> Encode(slabs[id])]

\* BasicSlabStorage.Load into a storage without slabs
BasicLoad(m) == [id \in DOMAIN m |-> DecodeSlab(id, m[id])]

\* iter := m.Iterator(); NewMapFromBatchData(storage1, address, ..., seed, fn)
\* with a new BasicSlabStorage storage1 and fn handing over iter.Next()
OrderedMapBatch ==
    /\ CallerIdle
    /\ MapOpen
    /\ baseStorage = EmptySegments
    /\ copied = NoCopy
    /\ \E st \in {OpenStorage} :
       \E out \in {MapFromBatchData(SlabStorage(EmptyMap, StorageIndexUndefined, CopyAddress),
                                    MapType(st.slabs, mapRoot),
                                    st.slabs[mapRoot].body.extra[1].seed,
                                    MapIterate(st.slabs, mapRoot))} :
          /\ out.st.index >= 1
          /\ copied' = [root |-> out.root, slabs |-> out.st.slabs]
          /\ ret' = [op |-> "NewMapFromBatchData", err |-> NoError]
    /\ calls' = <<>>
    /\ UNCHANGED <<cache, deltas, storageIndex, mapRoot, ref, committed, loaded>>
    /\ MapUntouched

\* m1 := storage.Encode(); storage2.Load(m1) with a new BasicSlabStorage
\* storage2, storage holding the slabs of the map
OrderedMapEncodeLoad ==
    /\ CallerIdle
    /\ MapOpen
    /\ baseStorage = EmptySegments
    /\ loaded = NotLoaded
    /\ \E st \in {OpenStorage} :
       /\ \A id \in DOMAIN st.slabs : CanEncode(st.slabs[id])
       /\ loaded' = [root |-> mapRoot, slabs |-> BasicLoad(BasicEncode(st.slabs))]
       /\ ret' = [op |-> "Load", err |-> NoError]
    /\ calls' = <<>>
    /\ UNCHANGED <<cache, deltas, storageIndex, mapRoot, ref, committed, copied>>
    /\ MapUntouched

\* ------------------------------------------------------------------------
\* Ordered map: values too large for a data slab
\* ------------------------------------------------------------------------
\* a value whose encoding is as long as the threshold of TestMapLargeElement
LargeValue == 512

\* the number of large values set
MaxLarge == 2

\* a value of this size or more is not stored inline
IsLarge(v) == v >= LargeValue

\* StorageIDStorable(id) and the id it stands for
StorageIDStorable(id) == 0 - (id[1] * IndexModulus + id[2])

StorableID(storable) ==
    NewStorageID((0 - storable) \div IndexModulus, (0 - storable) % IndexModulus)

\* StorableSlab{StorageID, Storable}
StorableSlab(v) == [kind |-> "storable", value |-> v]

\* Value.Storable(storage, address, maxInlineSize): a large value is stored
\* in a StorableSlab under a new id and its StorageIDStorable returned
Storable(st, v) ==
    IF IsLarge(v)
    THEN [st |-> StoreSlab(Allocated(st), NextID(st), StorableSlab(v)),
          storable |-> StorageIDStorable(NextID(st))]
    ELSE [st |-> st, storable |-> v]

\* Storable.StoredValue(storage): the value itself, or the value of the
\* StorableSlab the id names
StoredValue(slabs, storable) ==
    IF IsStorageIDStorable(storable) THEN slabs[StorableID(storable)].body.value
    ELSE storable

\* the Storable slabs in the storage
StorableSlabs(slabs) == {id \in DOMAIN slabs : slabs[id].body.kind = "storable"}

\* m.Set(compare, hashInputProvider, k, v) with a large value
OrderedMapSetLarge(k, v) ==
    /\ CallerIdle
    /\ MapOpen
    /\ Uncommitted
    /\ Cardinality(StorableSlabs(OpenStorage.slabs)) < MaxLarge
    /\ \E st \in {OpenStorage} : \E stored \in {Storable(st, v)} :
       \E out \in {MapSet(stored.st, mapRoot, k, stored.storable)} :
          /\ WriteBack(st, out.st)
          /\ ret' = [op |-> "Set", key |-> k, value |-> v, old |-> out.old,
                     err |-> NoError]
    /\ ref' = Put(ref, k, v)
    /\ calls' = <<>>
    /\ UNCHANGED <<cache, mapRoot, committed, copied, loaded>>
    /\ MapUntouched

\* a new map, not yet created
InitMap ==
    /\ mapRoot = StorageIDUndefined
    /\ ref = EmptyDict
    /\ committed = NotCommitted
    /\ copied = NoCopy
    /\ loaded = NotLoaded

\* ------------------------------------------------------------------------
\* The default digester: basicDigesterBuilder, basicDigester and their pool
\* ------------------------------------------------------------------------
\* the seeds given to SetSeed, the values digested and the levels asked for
Seeds == 0..2

HashValues == {1, 2}

DigestLevels == 0..5

\* basicDigester.Levels
basicLevels == 4

\* var emptyBlake3Hash [4]uint64
emptyBlake3Hash == <<0, 0, 0, 0>>

\* circlehash.Hash64(msg, seed): some 64-bit word that depends on both
Hash64(msg, seed) == (3 * msg[1] + 5 * seed) % 7

\* blake3.Sum256(msg) read as four big-endian 64-bit words
Blake3Sum256(msg) == <<10 * msg[1] + 1, 10 * msg[1] + 2, 10 * msg[1] + 3, 10 * msg[1] + 4>>

\* the tests' hashInputProvider: the encoded value, written into the scratch
\* buffer it is handed
HashInput(value) == <<value>>

\* &basicDigester{}
NewBasicDigester ==
    [circleHash64 |-> 0, blake3Hash |-> emptyBlake3Hash, scratch |-> <<>>, msg |-> <<>>]

\* no digester in hand
NoDigester == [circleHash64 |-> 0, blake3Hash |-> emptyBlake3Hash, scratch |-> <<"none">>,
               msg |-> <<>>]

HashSeedUninitializedError == [kind |-> "HashSeedUninitialized", id |-> StorageIDUndefined]

HashLevelError(level) == [kind |-> "HashLevel", id |-> StorageIDUndefined, level |-> level]

HashInputError == [kind |-> "External", id |-> StorageIDUndefined]

DigestResult(op, level, digests, err) ==
    [op |-> op, level |-> level, digests |-> digests, err |-> err]

\* variant: Reset leaves the memoized hash in the digester
ResetKeepsHash(d) == [d EXCEPT !.circleHash64 = 0, !.msg = <<>>]

\* basicDigester.Reset: the scratch buffer keeps its bytes
Reset(d) == [d EXCEPT !.circleHash64 = 0, !.blake3Hash = emptyBlake3Hash, !.msg = <<>>]

\* variant: the hash is computed on every request above level 0 and not kept
BasicDigestRehash(d, level) ==
    IF level >= basicLevels
    THEN [d |-> d, digest |-> 0, err |-> HashLevelError(level), sums |-> 0]
    ELSE IF level = 0
    THEN [d |-> d, digest |-> d.circleHash64, err |-> NoError, sums |-> 0]
    ELSE [d |-> d, digest |-> Blake3Sum256(d.msg)[level], err |-> NoError, sums |-> 1]

\* basicDigester.Digest(level): the digester afterwards, the digest, the error
\* and the number of blake3.Sum256 calls made
BasicDigest(d, level) ==
    IF level >= basicLevels
    THEN [d |-> d, digest |-> 0, err |-> HashLevelError(level), sums |-> 0]
    ELSE IF level = 0
    THEN [d |-> d, digest |-> d.circleHash64, err |-> NoError, sums |-> 0]
    ELSE
        LET empty == d.blake3Hash = emptyBlake3Hash
            sum == IF empty THEN [d EXCEPT !.blake3Hash = Blake3Sum256(d.msg)] ELSE d
        IN [d |-> sum, digest |-> sum.blake3Hash[level], err |-> NoError,
            sums |-> IF empty THEN 1 ELSE 0]

\* basicDigester.DigestPrefix(level): Digest(0), ..., Digest(level - 1)
RECURSIVE PrefixFrom(_, _, _)
PrefixFrom(d, i, level) ==
    IF i >= level THEN [d |-> d, digests |-> <<>>, err |-> NoError, sums |-> 0]
    ELSE
        LET one == BasicDigest(d, i) IN
        IF one.err # NoError
        THEN [d |-> one.d, digests |-> <<>>, err |-> one.err, sums |-> one.sums]
        ELSE LET rest == PrefixFrom(one.d, i + 1, level) IN
             [d |-> rest.d,
              digests |-> IF rest.err = NoError THEN <<one.digest>> \o rest.digests ELSE <<>>,
              err |-> rest.err,
              sums |-> one.sums + rest.sums]

\* variant: the bound of Digest, level < Levels(), used for the prefix
BasicDigestPrefixExclusive(d, level) ==
    IF level >= basicLevels
    THEN [d |-> d, digests |-> <<>>, err |-> HashLevelError(level), sums |-> 0]
    ELSE PrefixFrom(d, 0, level)

BasicDigestPrefix(d, level) ==
    IF level > basicLevels
    THEN [d |-> d, digests |-> <<>>, err |-> HashLevelError(level), sums |-> 0]
    ELSE PrefixFrom(d, 0, level)

\* `if bdb.k0 == 0`
SeedUninitialized(k0, k1) == k0 = 0

\* basicDigesterBuilder.SetSeed
SetSeed(k0, k1) ==
    /\ bdb' = [k0 |-> k0, k1 |-> k1]
    /\ digRet' = DigestResult("SetSeed", 0, <<>>, NoError)
    /\ UNCHANGED <<bd, basicDigesterPool, hashed, lastPut>>
    /\ UNCHANGED <<slabVars, allocVars, mapVars, arrayVars>>

\* basicDigesterBuilder.Digest(hip, value): getBasicDigester takes a pooled
\* digester or a new one; hip writes the hash input into its scratch buffer
BuilderDigest(value, fails) ==
    /\ bd = NoDigester
    /\ IF SeedUninitialized(bdb.k0, bdb.k1) THEN
            /\ ~fails
            /\ digRet' = DigestResult("Build", 0, <<>>, HashSeedUninitializedError)
            /\ UNCHANGED <<bd, basicDigesterPool, hashed, lastPut>>
       ELSE
            \E digester \in basicDigesterPool \cup {NewBasicDigester} :
                IF fails THEN
                    \* putDigester(digester)
                    /\ basicDigesterPool' = basicDigesterPool \cup {Reset(digester)}
                    /\ digRet' = DigestResult("Build", 0, <<>>, HashInputError)
                    /\ UNCHANGED <<bd, hashed, lastPut>>
                ELSE
                    /\ basicDigesterPool' = basicDigesterPool \ {digester}
                    /\ bd' = [digester EXCEPT !.scratch = HashInput(value),
                                              !.msg = HashInput(value),
                                              !.circleHash64 = Hash64(HashInput(value), bdb.k0)]
                    /\ digRet' = DigestResult("Build", 0, <<>>, NoError)
                    /\ hashed' = 0
                    /\ UNCHANGED lastPut
    /\ UNCHANGED bdb
    /\ UNCHANGED <<slabVars, allocVars, mapVars, arrayVars>>

\* Digester.Digest(level) on the digester in hand
DigesterDigest(level) ==
    /\ bd # NoDigester
    /\ LET out == BasicDigest(bd, level) IN
        /\ bd' = out.d
        /\ digRet' = DigestResult("Digest", level, <<out.digest>>, out.err)
        /\ hashed' = hashed + out.sums
    /\ UNCHANGED <<bdb, basicDigesterPool, lastPut>>
    /\ UNCHANGED <<slabVars, allocVars, mapVars, arrayVars>>

\* Digester.DigestPrefix(level) on the digester in hand
DigesterDigestPrefix(level) ==
    /\ bd # NoDigester
    /\ LET out == BasicDigestPrefix(bd, level) IN
        /\ bd' = out.d
        /\ digRet' = DigestResult("DigestPrefix", level, out.digests, out.err)
        /\ hashed' = hashed + out.sums
    /\ UNCHANGED <<bdb, basicDigesterPool, lastPut>>
    /\ UNCHANGED <<slabVars, allocVars, mapVars, arrayVars>>

\* putDigester(e): Reset, then back into the pool
PutDigester ==
    /\ bd # NoDigester
    /\ basicDigesterPool' = basicDigesterPool \cup {Reset(bd)}
    /\ bd' = NoDigester
    /\ digRet' = DigestResult("Put", 0, <<>>, NoError)
    /\ lastPut' = bd
    /\ UNCHANGED <<bdb, hashed>>
    /\ UNCHANGED <<slabVars, allocVars, mapVars, arrayVars>>

\* newBasicDigesterBuilder(), an empty pool
InitDigest ==
    /\ bdb = [k0 |-> 0, k1 |-> 0]
    /\ bd = NoDigester
    /\ basicDigesterPool = {}
    /\ digRet = DigestResult("New", 0, <<>>, NoError)
    /\ hashed = 0
    /\ lastPut = NoDigester

\* ------------------------------------------------------------------------
\* Array: slabs, thresholds, the operations of one slab
\* ------------------------------------------------------------------------
\* the values the array is given: unsigned integers that encode to 2 and to
\* 3 bytes
ArrayValues == {100, 1000}

\* the longest array built
MaxCount == 6

\* SetThreshold(threshold): the slab size aimed at, in bytes
ArrayThreshold == 8

minThreshold == ArrayThreshold \div 2

maxThreshold == ArrayThreshold

\* the sizes of the fixed parts of an encoded array slab, on the scale of
\* ArrayThreshold
arrayDataSlabPrefixSize == 1

arrayMetaDataSlabPrefixSize == 1

arraySlabHeaderSize == 2

\* the address that owns the array's slabs
ArrayAddress == 1

\* Storable.ByteSize of an unsigned integer: the length of its CBOR encoding
ByteSize(e) == IF e < 24 THEN 1 ELSE IF e < 256 THEN 2 ELSE IF e < 65536 THEN 3 ELSE 5

\* ArraySlabHeader{id, size, count}
ArraySlabHeader(id, size, count) == [id |-> id, size |-> size, count |-> count]

\* ArrayExtraData{TypeInfo}
ArrayExtraData(typeInfo) == [typeInfo |-> typeInfo]

\* the two kinds of array slab; extraData is <<>> for a slab that is not the
\* root
ArrayDataSlab(extraData, header, next, elements) ==
    [kind |-> "arraydata", extraData |-> extraData, header |-> header, next |-> next,
     elements |-> elements]

ArrayMetaDataSlab(extraData, header, childrenHeaders) ==
    [kind |-> "arraymeta", extraData |-> extraData, header |-> header,
     childrenHeaders |-> childrenHeaders]

IsData(slab) == slab.kind = "arraydata"

\* IsFull, IsUnderflow: read the cached size only
IsFull(slab) == slab.header.size > maxThreshold

\* variant: no slab is ever found short
IsUnderflowNever(slab) == FALSE

IsUnderflow(slab) == minThreshold > slab.header.size

\* the bytes the slab needs to reach minThreshold
UnderflowSize(slab) == minThreshold - slab.header.size

\* getArraySlab(storage, id); the slab is stored under its header's id
getArraySlab(st, id) == st.slabs[id].body

StoreArraySlab(st, slab) == StoreSlab(st, slab.header.id, slab)

\* the sum of the counts of child headers
RECURSIVE CountSum(_)
CountSum(headers) ==
    IF headers = <<>> THEN 0 ELSE Head(headers).count + CountSum(Tail(headers))

InsertAt(s, i, x) == SubSeq(s, 1, i - 1) \o <<x>> \o SubSeq(s, i, Len(s))

\* ArrayDataSlab.Insert, Set and Remove at index (from 0): the header is
\* adjusted by the sizes of the elements that come and go
DataInsert(a, index, v) ==
    [a EXCEPT !.elements = InsertAt(@, index + 1, v),
              !.header.size = @ + ByteSize(v),
              !.header.count = @ + 1]

\* variant: Set leaves the cached size as it was
DataSetKeepsSize(a, index, v) == [a EXCEPT !.elements[index + 1] = v]

DataSet(a, index, v) ==
    [a EXCEPT !.elements[index + 1] = v,
              !.header.size = @ + ByteSize(v) - ByteSize(a.elements[index + 1])]

DataRemove(a, index) ==
    [a EXCEPT !.elements = RemoveAt(@, index + 1),
              !.header.size = @ - ByteSize(a.elements[index + 1]),
              !.header.count = @ - 1]

\* ArrayDataSlab.Split: the number of elements that stay left and their size.
\* The element that crosses the middle goes to the smaller side.
RECURSIVE DataSplitPoint(_, _, _, _)
DataSplitPoint(elements, i, leftSize, dataSize) ==
    IF i > Len(elements) THEN [count |-> Len(elements), size |-> leftSize]
    ELSE
        LET elemSize == ByteSize(elements[i])
            midPoint == (dataSize + 1) \div 2
        IN  IF leftSize + elemSize >= midPoint THEN
                IF leftSize <= dataSize - leftSize - elemSize
                THEN [count |-> i, size |-> leftSize + elemSize]
                ELSE [count |-> i - 1, size |-> leftSize]
            ELSE DataSplitPoint(elements, i + 1, leftSize + elemSize, dataSize)

\* Split of a data or a meta slab: the right half gets a new id
Split(st, a) ==
    LET sID == NextID(st) IN
    IF IsData(a) THEN
        LET dataSize == a.header.size - arrayDataSlabPrefixSize
            p == DataSplitPoint(a.elements, 1, 0, dataSize)
        IN  [st |-> Allocated(st),
             left |-> [a EXCEPT !.elements = SubSeq(@, 1, p.count),
                                !.header.size = arrayDataSlabPrefixSize + p.size,
                                !.header.count = p.count,
                                !.next = sID],
             right |-> ArrayDataSlab(<<>>,
                          ArraySlabHeader(sID, arrayDataSlabPrefixSize + dataSize - p.size,
                                          Len(a.elements) - p.count),
                          a.next, SubSeq(a.elements, p.count + 1, Len(a.elements)))]
    ELSE
        LET n == Len(a.childrenHeaders)
            leftChildrenCount == (n + 1) \div 2
            leftSize == leftChildrenCount * arraySlabHeaderSize
            leftCount == CountSum(SubSeq(a.childrenHeaders, 1, leftChildrenCount))
        IN  [st |-> Allocated(st),
             left |-> [a EXCEPT !.childrenHeaders = SubSeq(@, 1, leftChildrenCount),
                                !.header.size = arrayMetaDataSlabPrefixSize + leftSize,
                                !.header.count = leftCount],
             right |-> ArrayMetaDataSlab(<<>>,
                          ArraySlabHeader(sID, a.header.size - leftSize,
                                          a.header.count - leftCount),
                          SubSeq(a.childrenHeaders, leftChildrenCount + 1, n))]

\* variant: a merged data slab keeps pointing at the slab merged away
MergeKeepsNext(a, right) ==
    IF IsData(a) THEN
        [a EXCEPT !.elements = @ \o right.elements,
                  !.header.size = @ + right.header.size - arrayDataSlabPrefixSize,
                  !.header.count = @ + right.header.count]
    ELSE
        [a EXCEPT !.childrenHeaders = @ \o right.childrenHeaders,
                  !.header.size = @ + right.header.size - arrayMetaDataSlabPrefixSize,
                  !.header.count = @ + right.header.count]

\* Merge of a slab with its right sibling
Merge(a, right) ==
    IF IsData(a) THEN
        [a EXCEPT !.elements = @ \o right.elements,
                  !.header.size = @ + right.header.size - arrayDataSlabPrefixSize,
                  !.header.count = @ + right.header.count,
                  !.next = right.next]
    ELSE
        [a EXCEPT !.childrenHeaders = @ \o right.childrenHeaders,
                  !.header.size = @ + right.header.size - arrayMetaDataSlabPrefixSize,
                  !.header.count = @ + right.header.count]

\* ArrayDataSlab.LendToRight: elements leave the left slab from its end
\* while it stays at or above the middle, or the right slab is still short
RECURSIVE LendPoint(_, _, _, _)
LendPoint(elements, i, leftSize, size) ==
    IF i < 1 THEN [count |-> 0, size |-> leftSize]
    ELSE
        LET elemSize == ByteSize(elements[i])
            midPoint == (size + 1) \div 2
        IN  IF leftSize - elemSize < midPoint /\ size - leftSize >= minThreshold
            THEN [count |-> i, size |-> leftSize]
            ELSE LendPoint(elements, i - 1, leftSize - elemSize, size)

\* ArrayDataSlab.BorrowFromRight: elements of the right slab join the left
\* one up to the middle; the one that crosses it comes too when the right
\* slab can spare it
RECURSIVE BorrowPoint(_, _, _, _, _)
BorrowPoint(elements, i, leftCount, leftSize, size) ==
    IF i > Len(elements) THEN [count |-> leftCount, size |-> leftSize]
    ELSE
        LET elemSize == ByteSize(elements[i])
            midPoint == (size + 1) \div 2
        IN  IF leftSize + elemSize > midPoint THEN
                IF size - leftSize - elemSize >= minThreshold
                THEN [count |-> leftCount + 1, size |-> leftSize + elemSize]
                ELSE [count |-> leftCount, size |-> leftSize]
            ELSE BorrowPoint(elements, i + 1, leftCount + 1, leftSize + elemSize, size)

\* the two slabs after the children or elements were dealt again: all of
\* them, in order, the first leftCount of them left
Redistributed(a, right, leftCount, leftSize) ==
    LET count == a.header.count + right.header.count
        size == a.header.size + right.header.size
    IN  IF IsData(a) THEN
            LET all == a.elements \o right.elements IN
            [left |-> [a EXCEPT !.elements = SubSeq(all, 1, leftCount),
                                !.header.size = leftSize,
                                !.header.count = leftCount],
             right |-> [right EXCEPT !.elements = SubSeq(all, leftCount + 1, Len(all)),
                                     !.header.size = size - leftSize,
                                     !.header.count = count - leftCount]]
        ELSE
            LET all == a.childrenHeaders \o right.childrenHeaders
                rightLen == Len(all) - leftCount
            IN
            [left |-> [a EXCEPT !.childrenHeaders = SubSeq(all, 1, leftCount),
                                !.header.size = arrayMetaDataSlabPrefixSize
                                                + leftCount * arraySlabHeaderSize,
                                !.header.count = CountSum(SubSeq(all, 1, leftCount))],
             right |-> [right EXCEPT !.childrenHeaders = SubSeq(all, leftCount + 1, Len(all)),
                                     !.header.size = arrayMetaDataSlabPrefixSize
                                                     + rightLen * arraySlabHeaderSize,
                                     !.header.count = count - CountSum(SubSeq(all, 1, leftCount))]]

\* LendToRight and BorrowFromRight; a meta slab leaves half of the children
\* on the left
LendToRight(a, right) ==
    IF IsData(a) THEN
        LET p == LendPoint(a.elements, Len(a.elements), a.header.size,
                           a.header.size + right.header.size)
        IN  Redistributed(a, right, p.count, p.size)
    ELSE Redistributed(a, right,
                       (Len(a.childrenHeaders) + Len(right.childrenHeaders)) \div 2, 0)

BorrowFromRight(a, right) ==
    IF IsData(a) THEN
        LET p == BorrowPoint(right.elements, 1, a.header.count, a.header.size,
                             a.header.size + right.header.size)
        IN  Redistributed(a, right, p.count, p.size)
    ELSE Redistributed(a, right,
                       (Len(a.childrenHeaders) + Len(right.childrenHeaders)) \div 2, 0)

\* CanLendToLeft, CanLendToRight: whether elements at that end of the slab
\* make up size bytes and leave the slab at minThreshold or above
RECURSIVE CanLend(_, _, _, _)
CanLend(a, order, lendSize, size) ==
    IF order = <<>> THEN FALSE
    ELSE
        LET lent == lendSize + ByteSize(a.elements[Head(order)]) IN
        IF a.header.size - lent < minThreshold THEN FALSE
        ELSE IF lent >= size THEN TRUE
        ELSE CanLend(a, Tail(order), lent, size)

CanLendFrom(a, size, fromLeft) ==
    IF IsData(a) THEN
        /\ Len(a.elements) >= 2
        /\ a.header.size - size >= minThreshold
        /\ CanLend(a, IF fromLeft THEN [i \in 1..Len(a.elements) |-> i]
                      ELSE [i \in 1..Len(a.elements) |-> Len(a.elements) + 1 - i], 0, size)
    ELSE
        LET n == (size + arraySlabHeaderSize - 1) \div arraySlabHeaderSize IN
        a.header.size - arraySlabHeaderSize * n > minThreshold

CanLendToLeft(a, size) == CanLendFrom(a, size, TRUE)

CanLendToRight(a, size) == CanLendFrom(a, size, FALSE)

\* ------------------------------------------------------------------------
\* Array: the tree
\* ------------------------------------------------------------------------
\* childSlabIndexInfo: the child that holds index and the index within it;
\* an index at the end of the slab falls to the last child
RECURSIVE childSlabIndexInfo(_, _, _)
childSlabIndexInfo(headers, i, index) ==
    IF index < headers[i].count \/ i = Len(headers)
    THEN [childHeaderIndex |-> i, adjustedIndex |-> index]
    ELSE childSlabIndexInfo(headers, i + 1, index - headers[i].count)

\* ArrayMetaDataSlab.SplitChildSlab: the two halves take the child's place
SplitChildSlab(st, a, child, childHeaderIndex) ==
    LET sp == Split(st, child)
        meta == [a EXCEPT
                   !.childrenHeaders =
                        SubSeq(@, 1, childHeaderIndex - 1)
                        \o <<sp.left.header, sp.right.header>>
                        \o SubSeq(@, childHeaderIndex + 1, Len(@)),
                   !.header.size = @ + arraySlabHeaderSize]
    IN  StoreArraySlab(StoreArraySlab(StoreArraySlab(sp.st, sp.left), sp.right), meta)

\* variant: the meta slab keeps the headers it had of the two children
RebalancedKeepsHeaders(st, a, i, pair) ==
    StoreArraySlab(StoreArraySlab(StoreArraySlab(st, pair.left), pair.right), a)

\* the meta slab after its children at i and i + 1 were dealt again
Rebalanced(st, a, i, pair) ==
    LET meta == [a EXCEPT !.childrenHeaders[i] = pair.left.header,
                          !.childrenHeaders[i + 1] = pair.right.header]
    IN  StoreArraySlab(StoreArraySlab(StoreArraySlab(st, pair.left), pair.right), meta)

\* variant: the slab merged away stays in the storage
MergedKeepsRight(st, a, i, left, right) ==
    LET merged == Merge(left, right)
        meta == [a EXCEPT !.childrenHeaders =
                               SubSeq(@, 1, i - 1) \o <<merged.header>>
                               \o SubSeq(@, i + 2, Len(@)),
                          !.header.size = @ - arraySlabHeaderSize]
    IN  StoreArraySlab(StoreArraySlab(st, merged), meta)

\* the meta slab after its child at i + 1 was merged into its child at i
Merged(st, a, i, left, right) ==
    LET merged == Merge(left, right)
        meta == [a EXCEPT !.childrenHeaders =
                               SubSeq(@, 1, i - 1) \o <<merged.header>>
                               \o SubSeq(@, i + 2, Len(@)),
                          !.header.size = @ - arraySlabHeaderSize]
    IN  RemoveSlab(StoreArraySlab(StoreArraySlab(st, merged), meta), right.header.id)

\* ArrayMetaDataSlab.MergeOrRebalanceChildSlab: the child borrows from a
\* sibling that can lend, from the bigger one when both can; otherwise it is
\* merged with a sibling, with the smaller one when it has two
MergeOrRebalanceChildSlab(st, a, child, childHeaderIndex, underflowSize) ==
    LET i == childHeaderIndex
        hasLeft == i > 1
        hasRight == i < Len(a.childrenHeaders)
        leftSib == getArraySlab(st, a.childrenHeaders[IF hasLeft THEN i - 1 ELSE i].id)
        rightSib == getArraySlab(st, a.childrenHeaders[IF hasRight THEN i + 1 ELSE i].id)
        leftCanLend == hasLeft /\ CanLendToRight(leftSib, underflowSize)
        rightCanLend == hasRight /\ CanLendToLeft(rightSib, underflowSize)
    IN  IF leftCanLend \/ rightCanLend THEN
            IF ~leftCanLend THEN Rebalanced(st, a, i, BorrowFromRight(child, rightSib))
            ELSE IF ~rightCanLend THEN Rebalanced(st, a, i - 1, LendToRight(leftSib, child))
            ELSE IF leftSib.header.size > rightSib.header.size
                 THEN Rebalanced(st, a, i - 1, LendToRight(leftSib, child))
                 ELSE Rebalanced(st, a, i, BorrowFromRight(child, rightSib))
        ELSE IF ~hasLeft THEN Merged(st, a, i, child, rightSib)
        ELSE IF ~hasRight THEN Merged(st, a, i - 1, leftSib, child)
        ELSE IF leftSib.header.size < rightSib.header.size
             THEN Merged(st, a, i - 1, leftSib, child)
             ELSE Merged(st, a, i, child, rightSib)

\* the change in the count of a slab that an operation on one index makes
CountChange(op) == IF op = "Insert" THEN 1 ELSE IF op = "Remove" THEN 0 - 1 ELSE 0

\* Insert, Set and Remove of a slab: a data slab changes its elements and is
\* stored; a meta slab hands the operation to the child that holds the
\* index, takes the child's new header, and splits the child when it is
\* full and merges or rebalances it when it underflows
RECURSIVE SlabEdit(_, _, _, _, _)
SlabEdit(st, id, op, index, v) ==
    LET a == getArraySlab(st, id) IN
    IF IsData(a) THEN
        StoreArraySlab(st, IF op = "Insert" THEN DataInsert(a, index, v)
                           ELSE IF op = "Set" THEN DataSet(a, index, v)
                           ELSE DataRemove(a, index))
    ELSE
        LET info == childSlabIndexInfo(a.childrenHeaders, 1, index)
            ci == info.childHeaderIndex
            childID == a.childrenHeaders[ci].id
            below == SlabEdit(st, childID, op, info.adjustedIndex, v)
            child == getArraySlab(below, childID)
            meta == [a EXCEPT !.childrenHeaders[ci] = child.header,
                              !.header.count = @ + CountChange(op)]
        IN  IF IsFull(child) THEN SplitChildSlab(below, meta, child, ci)
            ELSE IF IsUnderflow(child)
                 THEN MergeOrRebalanceChildSlab(below, meta, child, ci, UnderflowSize(child))
                 ELSE StoreArraySlab(below, meta)

\* Array.splitRoot: the old root gets a new id and is split; a new meta slab
\* with the two halves as children takes the root's id and its extra data
splitRoot(st, rootID) ==
    LET root == getArraySlab(st, rootID)
        sID == NextID(st)
        oldRoot == [root EXCEPT !.header.id = sID, !.extraData = <<>>]
        sp == Split(Allocated(st), oldRoot)
        newRoot == ArrayMetaDataSlab(root.extraData,
                      ArraySlabHeader(rootID,
                                      arrayMetaDataSlabPrefixSize + 2 * arraySlabHeaderSize,
                                      sp.left.header.count + sp.right.header.count),
                      <<sp.left.header, sp.right.header>>)
    IN  StoreArraySlab(StoreArraySlab(StoreArraySlab(sp.st, sp.left), sp.right), newRoot)

\* variant: the root keeps its only child
promoteChildKeepsRoot(st, rootID) == st

\* Array.promoteChildAsNewRoot: the only child of the root takes the root's
\* id and extra data, and its own id is removed from the storage
promoteChildAsNewRoot(st, rootID) ==
    LET root == getArraySlab(st, rootID)
        childID == root.childrenHeaders[1].id
        child == getArraySlab(st, childID)
        newRoot == [child EXCEPT !.header.id = rootID, !.extraData = root.extraData]
    IN  RemoveSlab(StoreArraySlab(st, newRoot), childID)

\* the root after an operation: split while full, replaced by its only child
RootFixed(st, rootID) ==
    LET root == getArraySlab(st, rootID)
        split == IF IsFull(root) THEN splitRoot(st, rootID) ELSE st
        now == getArraySlab(split, rootID)
    IN  IF ~IsData(now) /\ Len(now.childrenHeaders) = 1
        THEN promoteChildAsNewRoot(split, rootID)
        ELSE split

\* NewArray(storage, address, typeInfo): an empty root data slab
NewArray(st, typeInfo) ==
    StoreArraySlab(Allocated(st),
        ArrayDataSlab(ArrayExtraData(typeInfo),
                      ArraySlabHeader(NextID(st), arrayDataSlabPrefixSize, 0),
                      StorageIDUndefined, <<>>))

\* Array.Insert, Array.Set, Array.Remove
ArrayEdit(st, rootID, op, index, v) == RootFixed(SlabEdit(st, rootID, op, index, v), rootID)

\* Array.Count
ArrayCount(st, rootID) == getArraySlab(st, rootID).header.count

\* Array.Get(index): down the meta slabs by the counts of the child headers
RECURSIVE SlabGet(_, _, _)
SlabGet(st, id, index) ==
    LET a == getArraySlab(st, id) IN
    IF IsData(a) THEN a.elements[index + 1]
    ELSE LET info == childSlabIndexInfo(a.childrenHeaders, 1, index) IN
         SlabGet(st, a.childrenHeaders[info.childHeaderIndex].id, info.adjustedIndex)

ArrayGet(st, rootID, index) == SlabGet(st, rootID, index)

\* the first data slab: down the first child of every meta slab
RECURSIVE firstArrayDataSlab(_, _)
firstArrayDataSlab(st, id) ==
    LET a == getArraySlab(st, id) IN
    IF IsData(a) THEN id ELSE firstArrayDataSlab(st, a.childrenHeaders[1].id)

\* Array.Iterate: the elements of the data slabs along the next ids; steps
\* bounds the walk by the number of slabs
RECURSIVE IterateFrom(_, _, _)
IterateFrom(st, id, steps) ==
    IF id = StorageIDUndefined \/ steps = 0 \/ ~Has(st.slabs, id) THEN <<>>
    ELSE getArraySlab(st, id).elements
         \o IterateFrom(st, getArraySlab(st, id).next, steps - 1)

ArrayIterate(st, rootID) ==
    IterateFrom(st, firstArrayDataSlab(st, rootID), Cardinality(DOMAIN st.slabs))

\* ------------------------------------------------------------------------
\* Array: the operations of the tests
\* ------------------------------------------------------------------------
\* the type info the tests give the array
arrayTypeInfo == [value |-> 42]

IndexOutOfBoundsError(index) ==
    [kind |-> "IndexOutOfBounds", id |-> StorageIDUndefined, index |-> index]

ArrayResult(op, err) == [op |-> op, err |-> err]

ArrayOpen == array.root # StorageIDUndefined

ArrayUntouched == UNCHANGED <<slabVars, allocVars, mapVars, digestVars>>

\* the array after an operation left the storage as out; values is the
\* slice the tests keep beside the array
ArrayAfter(out, values) == [array EXCEPT !.st = out, !.values = values]

\* NewArray on a new BasicSlabStorage
ArrayNew ==
    /\ ~ArrayOpen
    /\ array' = [root |-> NextID(array.st), st |-> NewArray(array.st, arrayTypeInfo),
                 values |-> <<>>]
    /\ arrRet' = ArrayResult("NewArray", NoError)
    /\ ArrayUntouched

\* array.Insert(index, v); Append(v) is Insert(Count(), v)
ArrayInsert(index, v) ==
    /\ ArrayOpen
    /\ Len(array.values) < MaxCount
    /\ IF index > ArrayCount(array.st, array.root) THEN
            /\ arrRet' = ArrayResult("Insert", IndexOutOfBoundsError(index))
            /\ UNCHANGED array
       ELSE \E out \in {ArrayEdit(array.st, array.root, "Insert", index, v)} :
            /\ out.index >= array.st.index
            /\ array' = ArrayAfter(out, InsertAt(array.values, index + 1, v))
            /\ arrRet' = ArrayResult("Insert", NoError)
    /\ ArrayUntouched

\* array.Set(index, v)
ArraySet(index, v) ==
    /\ ArrayOpen
    /\ IF index >= ArrayCount(array.st, array.root) THEN
            /\ arrRet' = ArrayResult("Set", IndexOutOfBoundsError(index))
            /\ UNCHANGED array
       ELSE \E out \in {ArrayEdit(array.st, array.root, "Set", index, v)} :
            /\ out.index >= array.st.index
            /\ array' = ArrayAfter(out, [array.values EXCEPT ![index + 1] = v])
            /\ arrRet' = ArrayResult("Set", NoError)
    /\ ArrayUntouched

\* array.Remove(index)
ArrayRemove(index) ==
    /\ ArrayOpen
    /\ IF index >= ArrayCount(array.st, array.root) THEN
            /\ arrRet' = ArrayResult("Remove", IndexOutOfBoundsError(index))
            /\ UNCHANGED array
       ELSE \E out \in {ArrayEdit(array.st, array.root, "Remove", index, 0)} :
            /\ array' = ArrayAfter(out, RemoveAt(array.values, index + 1))
            /\ arrRet' = ArrayResult("Remove", NoError)
    /\ ArrayUntouched

\* no array created: an empty BasicSlabStorage
InitArray ==
    /\ array = [root |-> StorageIDUndefined,
                st |-> SlabStorage(EmptyMap, StorageIndexUndefined, ArrayAddress),
                values |-> <<>>]
    /\ arrRet = ArrayResult("New", NoError)

\* ------------------------------------------------------------------------
\* Specification
\* ------------------------------------------------------------------------
\* NewPersistentSlabStorage over a new InMemBaseStorage, with or without
\* the WithAutoCommit option
Init ==
    /\ autoCommit \in BOOLEAN
    /\ baseStorage = EmptySegments
    /\ cache = EmptyMap
    /\ deltas = EmptyMap
    /\ calls = <<>>
    /\ ret = [op |-> "New", err |-> NoError]
    /\ opCount = 0
    /\ lastCommit = [view |-> View(EmptyMap, EmptyMap, EmptySegments), disturbed |-> FALSE]
    /\ pc = "idle"
    /\ fc = IdleFC
    /\ jobs = Channel(<<>>, TRUE)
    /\ results = Channel(<<>>, TRUE)
    /\ workers = EmptyBag
    /\ InitAlloc
    /\ InitMap
    /\ InitDigest
    /\ InitArray

Next ==
    \/ Store
    \/ Remove
    \/ Retrieve
    \/ Commit
    \/ DropDeltas
    \/ DropCache
    \/ FastCommitBegin
    \/ EncoderRecv
    \/ EncoderSend
    \/ CallerCollect
    \/ CallerApply

Spec == Init /\ [][Next]_vars

\* the storage used only to generate ids
NextAlloc == Generate

SpecAlloc == Init /\ [][NextAlloc]_vars

\* a map in the storage: built, read, committed, reopened, copied, encoded
NextMap ==
    \/ OrderedMapNew
    \/ \E k \in MapKeys, v \in MapValues : OrderedMapSet(k, v)
    \/ \E k \in MapKeys : OrderedMapRemove(k)
    \/ OrderedMapPopIterate
    \/ MapCommit
    \/ MapDropCache
    \/ MapDropDeltas
    \/ OrderedMapOpen
    \/ OrderedMapBatch
    \/ OrderedMapEncodeLoad

SpecMap == Init /\ [][NextMap]_vars

\* a map given small and large values
NextMapLarge ==
    \/ OrderedMapNew
    \/ \E k \in MapKeys, v \in MapValues : OrderedMapSet(k, v)
    \/ \E k \in MapKeys : OrderedMapSetLarge(k, LargeValue)

SpecMapLarge == Init /\ [][NextMapLarge]_vars

\* a digester builder: seeded, asked for digesters, the digesters asked for
\* digests and handed back
NextDigest ==
    \/ \E k0 \in Seeds, k1 \in Seeds : SetSeed(k0, k1)
    \/ \E value \in HashValues, fails \in BOOLEAN : BuilderDigest(value, fails)
    \/ \E level \in DigestLevels : DigesterDigest(level)
    \/ \E level \in DigestLevels : DigesterDigestPrefix(level)
    \/ PutDigester

SpecDigest == Init /\ [][NextDigest]_vars

\* an array on a storage of its own: created, then changed at any index
NextArray ==
    \/ ArrayNew
    \/ \E index \in 0..MaxCount, v \in ArrayValues : ArrayInsert(index, v)
    \/ \E index \in 0..MaxCount, v \in ArrayValues : ArraySet(index, v)
    \/ \E index \in 0..MaxCount : ArrayRemove(index)

SpecArray == Init /\ [][NextArray]_vars

\* ------------------------------------------------------------------------
\* Properties
\* ------------------------------------------------------------------------
\* the step is the whole of the named operation
StepOf(name) == opCount' = opCount + 1 /\ ret'.op = name

\* the step in which the running FastCommit returns
FastCommitReturns == pc = "collect" /\ pc' = "idle"

OwnedKeys(d) == {id \in DOMAIN d : id[1] # AddressUndefined}

\* the calls cs are in strictly ascending (address, index) order
Ascending(cs) ==
    \A i, j \in 1..Len(cs) :
        i < j => \/ cs[i].id[1] < cs[j].id[1]
                 \/ cs[i].id[1] = cs[j].id[1] /\ cs[i].id[2] < cs[j].id[2]

\* call c is the call that commits the entry of its id in deltas d
CommitsEntry(c, d) ==
    /\ c.id \in OwnedKeys(d)
    /\ IF d[c.id] = Nil THEN c.op = "Remove"
       ELSE c.op = "Store" /\ CanEncode(d[c.id]) /\ c.data = Encode(d[c.id])

\* the sequence of the owned keys of d in ascending (address, index) order
AscendingKeys(d) ==
    CHOOSE s \in [1..Cardinality(OwnedKeys(d)) -> OwnedKeys(d)] :
        \A i, j \in 1..Cardinality(OwnedKeys(d)) :
            i < j => \/ s[i][1] < s[j][1]
                     \/ s[i][1] = s[j][1] /\ s[i][2] < s[j][2]

\* the base storage after the successful calls of cs, in order
RECURSIVE ApplyCalls(_, _)
ApplyCalls(b, cs) ==
    IF cs = <<>> THEN b
    ELSE LET c == Head(cs) IN
         ApplyCalls(IF ~c.ok THEN b
                    ELSE IF c.op = "Store" THEN Put(b, c.id, c.data)
                    ELSE IF c.op = "Remove" THEN Delete(b, c.id)
                    ELSE b,
                    Tail(cs))

\* C1: within one Commit the base-storage calls are in strictly ascending
\* (address, index) order and each commits an owned entry of deltas (Remove
\* for a tombstone, Store of the encoding otherwise); a Commit that returns
\* without error has issued exactly one call for every owned entry.
C1_CommitCallsAscending ==
    [][StepOf("Commit") =>
        /\ Ascending(calls')
        /\ \A i \in 1..Len(calls') : CommitsEntry(calls'[i], deltas)
        /\ ret'.err = NoError =>
            /\ {calls'[i].id : i \in 1..Len(calls')} = OwnedKeys(deltas)
            /\ \A i \in 1..Len(calls') : calls'[i].ok]_vars

\* a Commit of three owned entries, a tombstone among them, has returned nil
C1_Witness ==
    /\ ret.op = "Commit"
    /\ ret.err = NoError
    /\ Len(calls) = 3
    /\ \E i \in 1..3 : calls[i].op = "Remove"
    /\ \E i \in 1..3 : calls[i].op = "Store"

\* C2 (as claimed): after Commit returns without error deltas is empty and
\* every non-tombstone slab that was in deltas is in the cache, so that
\* Retrieve of its id returns that slab.
C2_CommittedSlabsCached ==
    [][(StepOf("Commit") /\ ret'.err = NoError) =>
        /\ deltas' = EmptyMap
        /\ \A id \in DOMAIN deltas :
            deltas[id] # Nil =>
                /\ Has(cache', id) /\ cache'[id] = deltas[id]
                /\ LET r == RetrieveOutcome(deltas', cache', baseStorage', id, FALSE).ret
                   IN  r.found /\ r.slab = deltas[id]]_vars

\* C3: a Commit that returns an error returns the error of the failing
\* entry, leaves deltas as they were, has applied to the base storage exactly
\* the calls of the sorted entries before the failing one, and a Commit
\* that directly follows starts again from the first entry of the full set.
C3_FailedCommitKeepsDeltas ==
    [][StepOf("Commit") =>
        LET keys == AscendingKeys(deltas)
            n == Len(calls')
            done == IF n > 0 /\ ~calls'[n].ok THEN n - 1 ELSE n
        IN  /\ ret'.err # NoError =>
                /\ deltas' = deltas
                /\ done < Len(keys)
                /\ ret'.err.id = keys[done + 1]
                /\ \A i \in 1..n : calls'[i].id = keys[i] /\ CommitsEntry(calls'[i], deltas)
                /\ \A i \in 1..done : calls'[i].ok
                /\ baseStorage' = ApplyCalls(baseStorage, calls')
            /\ ret'.retry =>
                /\ \A i \in 1..n : calls'[i].id = keys[i] /\ CommitsEntry(calls'[i], deltas)
                /\ ret'.err = NoError => n = Len(keys)]_vars

\* a Commit that failed after a first successful base-storage call was retried and
\* the retry committed the full set
C3_Witness ==
    /\ ret.op = "Commit"
    /\ ret.retry
    /\ ret.err = NoError
    /\ Len(calls) = 2

\* C4: with autoCommit off, Store, Remove and Retrieve issue no Store or Remove
\* call on the base storage and leave its segments unchanged; the segments
\* change only in a step of Commit or FastCommit.
C4_NoBaseWriteBetweenCommits ==
    [][~autoCommit =>
        /\ (StepOf("Store") \/ StepOf("Remove") \/ StepOf("Retrieve")) =>
            /\ baseStorage' = baseStorage
            /\ \A i \in 1..Len(calls') : calls'[i].op = "Retrieve"
        /\ baseStorage' # baseStorage => StepOf("Commit") \/ FastCommitReturns]_vars

\* with autoCommit off a slab was stored, another id removed and a third
\* retrieved from the base storage, which is still empty
C4_Witness ==
    /\ ~autoCommit
    /\ ret.op = "Retrieve"
    /\ Len(calls) = 1
    /\ \E id \in DOMAIN deltas : deltas[id] = Nil
    /\ \E id \in DOMAIN deltas : deltas[id] # Nil
    /\ baseStorage = EmptySegments

\* C5: Retrieve(id) returns the entry of deltas when there is one (a tombstone
\* as not found) without touching cache or base storage; otherwise the cached
\* slab without a base-storage call; otherwise it fetches the bytes from the
\* base storage and, when they decode, returns the decoded slab and puts it
\* into the cache.
C5_RetrieveOrder ==
    [][StepOf("Retrieve") =>
        LET id == ret'.id IN
        IF Has(deltas, id) THEN
            /\ ret'.slab = deltas[id] /\ ret'.found = (deltas[id] # Nil) /\ ret'.err = NoError
            /\ calls' = <<>> /\ cache' = cache
        ELSE IF Has(cache, id) THEN
            /\ ret'.slab = cache[id] /\ ret'.found /\ ret'.err = NoError
            /\ calls' = <<>> /\ cache' = cache
        ELSE
            /\ Len(calls') = 1 /\ calls'[1].op = "Retrieve" /\ calls'[1].id = id
            /\ (calls'[1].ok /\ Has(baseStorage, id)) =>
                /\ ret'.found /\ ret'.err = NoError
                /\ ret'.slab.id = id /\ Encode(ret'.slab) = baseStorage[id]
                /\ cache' = Put(cache, id, ret'.slab)]_vars

\* a slab was fetched from the base storage, decoded and cached while deltas
\* and cache hold other ids
C5_Witness ==
    /\ ret.op = "Retrieve"
    /\ ret.found
    /\ Len(calls) = 1
    /\ Has(cache, ret.id)
    /\ ~Has(deltas, ret.id)
    /\ deltas # EmptyMap


AllEncodable(d) == \A id \in OwnedKeys(d) : d[id] = Nil \/ CanEncode(d[id])

\* the number of the failing call in cs, 0 when none failed
FailedAt(cs) == IF cs # <<>> /\ ~cs[Len(cs)].ok THEN Len(cs) ELSE 0

\* the FastCommit that returns in this step did what Commit does on the
\* same deltas, cache and base storage with the same base-storage call failing
SameAsCommit ==
    \A order \in MapOrders(DOMAIN deltas) :
        LET out == CommitOutcome(deltas, cache, baseStorage, order, FailedAt(calls'))
        IN  /\ calls' = out.calls
            /\ ret'.err = out.err
            /\ baseStorage' = out.base
            /\ cache' = out.cache
            /\ deltas' = out.deltas

SequentialFastCommitCalls(d, c, b, order, failAt) ==
    IF ~AllEncodable(d) THEN <<>>
    ELSE FastCommitLoop(sortedOwnedDeltaKeys(order), CommitState(d, c, b),
                        [id \in OwnedKeys(d) |-> IF d[id] = Nil THEN NoData ELSE Encode(d[id])],
                        failAt).calls

\* C8: the base-storage calls of a Commit or FastCommit are determined by
\* deltas and by which base-storage call fails: they do not depend on the
\* order in which the deltas map is ranged over nor on the schedule of the
\* workers.
C8_CommitDeterministic ==
    [][/\ StepOf("Commit") =>
            \A order \in MapOrders(DOMAIN deltas) :
                CommitOutcome(deltas, cache, baseStorage, order, FailedAt(calls')).calls = calls'
       /\ (FastCommitReturns /\ fc.numWorkers >= 1) =>
            \A order \in MapOrders(DOMAIN deltas) :
                SequentialFastCommitCalls(deltas, cache, baseStorage, order, FailedAt(calls')) = calls']_vars

\* FastCommit with two workers stopped at a failing second base-storage call
C8_Witness ==
    /\ ret.op = "FastCommit"
    /\ ret.err.kind = "StorageFailed"
    /\ Len(calls) = 2
    /\ ret.numWorkers = 2

\* C9 (as claimed): with autoCommit set Store and Remove call the base
\* storage directly and leave deltas unchanged.
C9_AutoCommitBypassesDeltas ==
    [][(autoCommit /\ (StepOf("Store") \/ StepOf("Remove"))) =>
        /\ deltas' = deltas
        /\ ret'.err = NoError =>
            /\ Len(calls') = 1
            /\ calls'[1].op = ret'.op
            /\ calls'[1].id = ret'.id]_vars

\* C10: no base-storage call of Commit or FastCommit carries an id whose
\* address is undefined.
C10_NoUndefinedAddressCommitted ==
    ret.op \in {"Commit", "FastCommit"} =>
        \A i \in 1..Len(calls) : calls[i].id[1] # AddressUndefined

\* a Commit over deltas that hold a slab without owner has stored an owned
\* slab and then failed
C10_Witness ==
    /\ ret.op = "Commit"
    /\ ret.err.kind = "StorageFailed"
    /\ Len(calls) = 2
    /\ \E id \in DOMAIN deltas : id[1] = AddressUndefined /\ deltas[id] # Nil

\* ------------------------------------------------------------------------
\* Properties of GenerateStorageID
\* ------------------------------------------------------------------------
\* C11: every id returned by GenerateStorageID is fresh (never returned before
\* by this storage) and passes Valid; for a defined address it comes from the
\* base allocator and its index is greater than the address's counter before
\* the call, the counters of the other addresses staying as they were; for
\* the undefined address it comes from tempStorageIndex, which grows, and the
\* base allocator is not called.
C11_GeneratedIDsFresh ==
    [][\A address \in Addresses : GenerateStorageID(address) =>
        LET id == genRet'.id IN
        /\ id \notin generated
        /\ Valid(id) = "nil"
        /\ id[1] = address
        /\ IF address = AddressUndefined THEN
                /\ ~genRet'.base
                /\ id[2] = tempStorageIndex'
                /\ tempStorageIndex' > tempStorageIndex
                /\ storageIndex' = storageIndex
           ELSE
                /\ genRet'.base
                /\ id[2] = StorageIndexOf(storageIndex', address)
                /\ id[2] > StorageIndexOf(storageIndex, address)
                /\ tempStorageIndex' = tempStorageIndex
                /\ \A other \in Addresses \ {address} :
                       StorageIndexOf(storageIndex', other) = StorageIndexOf(storageIndex, other)
      ]_vars

\* ------------------------------------------------------------------------
\* Properties of the map
\* ------------------------------------------------------------------------
\* the slabs of the storage the map is in
MapView == PersistentSlabs(deltas, cache, baseStorage)

\* m.Get: the value and the error returned
GetResult(slabs, root, k) ==
    LET got == MapGet(slabs, root, k) IN
    IF got = <<>> THEN [value |-> <<>>, err |-> KeyNotFoundError(k)]
    ELSE [value |-> <<got[2]>>, err |-> NoError]

\* m.Has
MapHas(slabs, root, k) == MapGet(slabs, root, k) # <<>>

\* the step is NewMapWithRootID on a storage whose deltas and cache are
\* empty, after a commit
ReopenedFromBase ==
    /\ ret'.op = "NewMapWithRootID"
    /\ committed.committed
    /\ deltas = EmptyMap
    /\ cache = EmptyMap

C13_AgreesWithDictionary ==
    MapOpen =>
        \A slabs \in {MapView} :
        /\ MapCount(slabs, mapRoot) = Cardinality(DOMAIN ref)
        /\ \A k \in MapKeys :
            /\ MapHas(slabs, mapRoot, k) <=> k \in DOMAIN ref
            /\ k \in DOMAIN ref =>
                GetResult(slabs, mapRoot, k) = [value |-> <<ref[k]>>, err |-> NoError]

\* a key has been removed from a map that had grown beyond one slab, other
\* keys staying, one of them with its second value
C13_Witness ==
    /\ ret.op = "Remove"
    /\ ret.err = NoError
    /\ Cardinality(DOMAIN ref) >= 2
    /\ \E k \in DOMAIN ref : ref[k] = 20
    /\ StorageIndexOf(storageIndex, MapAddress) >= 3
    /\ MapCount(MapView, mapRoot) = Cardinality(DOMAIN ref)

\* C14: Set of a key the map does not hold returns no previous value and
\* Count grows by one; Set of a key it holds returns the value stored before
\* and Count stays; either way Get then returns the value set.  So a Set
\* that repeats the Set before it (same key, same value) returns that value
\* and leaves Count as it was.
C14_SetReturnsPrevious ==
    [][ret'.op = "Set" =>
        \A slabs \in {MapView}, slabs1 \in {MapView'}, k \in {ret'.key} :
        \A before \in {GetResult(slabs, mapRoot, k)} :
        /\ ret'.err = NoError
        /\ ret'.old = before.value
        /\ MapCount(slabs1, mapRoot) =
                MapCount(slabs, mapRoot) + (IF before.value = <<>> THEN 1 ELSE 0)
        /\ GetResult(slabs1, mapRoot, k) = [value |-> <<ret'.value>>, err |-> NoError]
        /\ (ret.op = "Set" /\ ret.key = k /\ ret.value = ret'.value) =>
                /\ ret'.old = <<ret'.value>>
                /\ MapCount(slabs1, mapRoot) = MapCount(slabs, mapRoot)
      ]_vars

\* a Set has returned the very value it set, in a map of several keys
C14_Witness ==
    /\ ret.op = "Set"
    /\ ret.old = <<ret.value>>
    /\ MapOpen
    /\ MapCount(MapView, mapRoot) >= 3

\* the map agrees with the dictionary kept beside it on every key
AgreesWith(slabs, root, dict) ==
    /\ MapCount(slabs, root) = Cardinality(DOMAIN dict)
    /\ \A k \in MapKeys :
        GetResult(slabs, root, k) =
            IF k \in DOMAIN dict THEN [value |-> <<dict[k]>>, err |-> NoError]
            ELSE [value |-> <<>>, err |-> KeyNotFoundError(k)]

\* C15: Remove of a key the map holds returns the key and its value without
\* error, Count drops by one, the key is gone and the other keys keep their
\* values.  Remove of a key it does not hold returns a key-not-found error
\* and no key or value, and leaves every slab, Count and the elements as
\* they were; Get of such a key returns key-not-found and no value.  After
\* either the map is open and answers as the dictionary does.
C15_RemoveReturnsStored ==
    [][ret'.op = "Remove" =>
        \A slabs \in {MapView}, slabs1 \in {MapView'}, k \in {ret'.key} :
        \A before \in {GetResult(slabs, mapRoot, k)} :
        /\ IF before.err = NoError THEN
                /\ ret'.err = NoError
                /\ ret'.old = <<k>> \o before.value
                /\ MapCount(slabs1, mapRoot) = MapCount(slabs, mapRoot) - 1
                /\ \A j \in MapKeys \ {k} :
                        GetResult(slabs1, mapRoot, j) = GetResult(slabs, mapRoot, j)
           ELSE
                /\ before = [value |-> <<>>, err |-> KeyNotFoundError(k)]
                /\ ret'.err = KeyNotFoundError(k)
                /\ ret'.old = <<>>
                /\ slabs1 = slabs
                /\ MapCount(slabs1, mapRoot) = MapCount(slabs, mapRoot)
                /\ MapIterate(slabs1, mapRoot) = MapIterate(slabs, mapRoot)
        /\ GetResult(slabs1, mapRoot, k) = [value |-> <<>>, err |-> KeyNotFoundError(k)]
        /\ MapOpen'
        /\ AgreesWith(slabs1, mapRoot, ref')
      ]_vars

\* a Remove has returned key-not-found in a map that holds other keys
C15_Witness ==
    /\ ret.op = "Remove"
    /\ ret.err = KeyNotFoundError(ret.key)
    /\ MapOpen
    /\ MapCount(MapView, mapRoot) >= 2
    /\ ret.key \notin DOMAIN ref

\* the less function of sortSliceByDigest without its tie-break: the full
\* digest prefix of a is below that of b at the first level they differ
DigestLess(a, b) ==
    LET digest1 == DigestPrefix(a, Levels(a))
        digest2 == DigestPrefix(b, Levels(b))
        differ == {z \in 1..Len(digest1) : digest1[z] # digest2[z]}
    IN  /\ differ # {}
        /\ LET z == CHOOSE z \in differ : \A y \in differ : z <= y
           IN digest1[z] < digest2[z]

\* m.IterateKeys and m.IterateValues: what the visitor is given
MapIterateKeys(slabs, root) ==
    LET it == MapIterate(slabs, root) IN [i \in 1..Len(it) |-> it[i][1]]

MapIterateValues(slabs, root) ==
    LET it == MapIterate(slabs, root) IN [i \in 1..Len(it) |-> it[i][2]]

\* the sequence without the entries of key k
Without(s, k) == SelectSeq(s, LAMBDA e : e[1] # k)

\* the visitor of Iterate was given each key of the dictionary once, with its
\* value, no key sorting below a key visited before it, and the visitors of
\* IterateKeys and IterateValues the keys and the values of that sequence
IteratesSorted(it, keys, values, dict) ==
    /\ Len(it) = Cardinality(DOMAIN dict)
    /\ \A k \in DOMAIN dict : \E i \in 1..Len(it) : it[i] = <<k, dict[k]>>
    /\ \A i, j \in 1..Len(it) : i < j => ~DigestLess(it[j][1], it[i][1])
    /\ keys = [i \in 1..Len(it) |-> it[i][1]]
    /\ values = [i \in 1..Len(it) |-> it[i][2]]

\* C16: Iterate visits every entry of the map once, in ascending order of the
\* full digest prefix.  Among keys of equal digests the order is that of
\* insertion: a new key comes after every key that does not sort above it,
\* a Set of a held key and a Remove leave the order of the other keys as it
\* was.  IterateKeys and IterateValues give the keys and the values of the
\* same sequence.
C16_IterateOrder ==
    [][(MapOpen /\ MapOpen') =>
        \A slabs \in {MapView}, slabs1 \in {MapView'} :
        \A before \in {MapIterate(slabs, mapRoot)}, after \in {MapIterate(slabs1, mapRoot)} :
        \A keys \in {MapIterateKeys(slabs, mapRoot)}, keys1 \in {MapIterateKeys(slabs1, mapRoot)} :
        /\ IteratesSorted(before, keys, MapIterateValues(slabs, mapRoot), ref)
        /\ IteratesSorted(after, keys1, MapIterateValues(slabs1, mapRoot), ref')
        /\ ret'.op = "Set" =>
            /\ Without(after, ret'.key) = Without(before, ret'.key)
            /\ keys1 = IF ret'.old # <<>> THEN keys
                       ELSE SelectSeq(keys, LAMBDA j : ~DigestLess(ret'.key, j))
                            \o <<ret'.key>>
                            \o SelectSeq(keys, LAMBDA j : DigestLess(ret'.key, j))
        /\ ret'.op = "Remove" => after = Without(before, ret'.key)
      ]_vars

\* two keys of equal digests at every level are in the map, the one set
\* later second, between keys of other digests
C16_Witness ==
    /\ MapOpen
    /\ ret.op = "Set"
    /\ ret.key = 2
    /\ ret.old = <<>>
    /\ MapIterateKeys(MapView, mapRoot) = <<3, 4, 2, 1>>

\* The elements of one level are where the digests of their keys put them:
\* prefix holds the hkeys of the levels above.
RECURSIVE ElementsValid(_, _, _, _)
ElementsValid(slabs, elems, level, prefix) ==
    /\ \A i, j \in 1..Len(elems) :
        i < j => \/ elems[i].hkey < elems[j].hkey
                 \/ elems[i].e.kind = "single" /\ level >= Levels(elems[i].e.key)
    /\ \A i \in 1..Len(elems) :
        LET e == elems[i].e IN
        IF e.kind = "single" THEN
            /\ level <= Levels(e.key)
            /\ DigestPrefix(e.key, level) = prefix
            /\ level < Levels(e.key) => elems[i].hkey = Digest(e.key, level)
        ELSE IF e.kind = "inline" THEN
            /\ e.elems # <<>>
            /\ ElementsValid(slabs, e.elems, level + 1, Append(prefix, elems[i].hkey))
        ELSE
            /\ Has(slabs, e.id)
            /\ slabs[e.id].body.kind = "collision"
            /\ slabs[e.id].body.level = level + 1
            /\ slabs[e.id].body.elems # <<>>
            /\ ElementsValid(slabs, slabs[e.id].body.elems, level + 1,
                             Append(prefix, elems[i].hkey))

\* ValidMap: the tree invariants of the map with this root.  The count is
\* the number of elements of the leaves; a data slab that is not the root
\* is within the thresholds or holds one element; the children of the meta
\* slab ascend strictly by first hkey and their headers give their sizes;
\* the next chain runs through the children in order and ends undefined.
ValidMap(slabs, root) ==
    /\ Has(slabs, root)
    /\ slabs[root].body.kind \in {"data", "meta"}
    /\ Len(slabs[root].body.extra) = 1
    /\ LET body == slabs[root].body IN
       IF body.kind = "data" THEN
            /\ body.next = StorageIDUndefined
            /\ ElementsValid(slabs, body.elems, 0, <<>>)
            /\ MapCount(slabs, root) = Len(ElementsIterate(slabs, body.elems))
       ELSE
            /\ \A i \in 1..Len(body.children) :
                LET id == body.children[i].id IN
                /\ Has(slabs, id)
                /\ slabs[id].body.kind = "data"
                /\ slabs[id].body.extra = <<>>
                /\ slabs[id].body.elems # <<>>
                /\ body.children[i] = ChildHeader(id, slabs[id].body.elems)
                /\ slabs[id].body.next = IF i = Len(body.children) THEN StorageIDUndefined
                                         ELSE body.children[i + 1].id
                /\ ElementsValid(slabs, slabs[id].body.elems, 0, <<>>)
                /\ \/ Len(slabs[id].body.elems) = 1
                   \/ /\ ElementsSize(slabs[id].body.elems) >= MinThreshold
                      /\ ElementsSize(slabs[id].body.elems) <= MaxThreshold
                /\ i < Len(body.children) =>
                    slabs[id].body.elems[Len(slabs[id].body.elems)].hkey
                        < body.children[i + 1].firstKey
            /\ \A i, j \in 1..Len(body.children) :
                i < j => body.children[i].firstKey < body.children[j].firstKey
            /\ MapCount(slabs, root) = Len(MapIterate(slabs, root))

\* C17: the map NewMapFromBatchData builds from the source's type info and
\* seed and from the pairs the source's iterator hands over has another root
\* id, the count, type info and seed of the source, the same Get result for
\* every key and the same Iterate sequence; encoded and loaded into a new
\* storage it is a valid map that iterates in that same sequence.
C17_BatchCopyEqualsSource ==
    copied # NoCopy =>
        \A slabs \in {MapView}, again \in {BasicLoad(BasicEncode(copied.slabs))} :
        /\ copied.root # mapRoot
        /\ MapCount(copied.slabs, copied.root) = MapCount(slabs, mapRoot)
        /\ MapCount(copied.slabs, copied.root) = Cardinality(DOMAIN ref)
        /\ MapType(copied.slabs, copied.root) = MapType(slabs, mapRoot)
        /\ copied.slabs[copied.root].body.extra[1].seed = slabs[mapRoot].body.extra[1].seed
        /\ \A k \in MapKeys :
            GetResult(copied.slabs, copied.root, k) = GetResult(slabs, mapRoot, k)
        /\ MapIterate(copied.slabs, copied.root) = MapIterate(slabs, mapRoot)
        /\ ValidMap(again, copied.root)
        /\ MapIterate(again, copied.root) = MapIterate(slabs, mapRoot)
        /\ MapCount(again, copied.root) = MapCount(slabs, mapRoot)

\* a map of several keys, two of them in a collision group, has been copied
\* into a meta slab over two data slabs
C17_Witness ==
    /\ copied # NoCopy
    /\ ret.op = "NewMapFromBatchData"
    /\ copied.slabs[copied.root].body.kind = "meta"
    /\ Cardinality(DOMAIN copied.slabs) = 3
    /\ MapCount(copied.slabs, copied.root) >= 3
    /\ MapIterate(copied.slabs, copied.root) = MapIterate(MapView, mapRoot)

Colliding(dict) ==
    {k \in DOMAIN dict : \E j \in DOMAIN dict \ {k} : Digest(k, 0) = Digest(j, 0)}

\* the keys of the dictionary whose digests are those of another of its keys
\* at every level: the keys of list-mode groups
CollidingEveryLevel(dict) ==
    {k \in DOMAIN dict : \E j \in DOMAIN dict \ {k} :
        DigestPrefix(k, Levels(k)) = DigestPrefix(j, Levels(j))}

\* C19: keys whose digests collide, at level 0 only or at every level the
\* digester has, stay apart.  Every Set and Remove on such a key returns, a
\* Set without error, a Remove with the key and its own value; after every
\* operation Get returns for each colliding key its own value, and after a
\* Remove the keys that collided with the removed one are still held.
C19_CollidingKeysApart ==
    [][(MapOpen /\ MapOpen') =>
        \A slabs1 \in {MapView'} :
        /\ \A k \in Colliding(ref') :
            GetResult(slabs1, mapRoot, k) = [value |-> <<ref'[k]>>, err |-> NoError]
        /\ (ret'.op = "Set" /\ ret'.key \in Colliding(ref')) =>
            /\ ret'.err = NoError
            /\ ret'.old = IF ret'.key \in DOMAIN ref THEN <<ref[ret'.key]>> ELSE <<>>
            /\ MapCount(slabs1, mapRoot) = Cardinality(DOMAIN ref')
        /\ (ret'.op = "Remove" /\ ret'.key \in Colliding(ref)) =>
            /\ ret'.err = NoError
            /\ ret'.old = <<ret'.key, ref[ret'.key]>>
            /\ ~MapHas(slabs1, mapRoot, ret'.key)
            /\ MapCount(slabs1, mapRoot) = Cardinality(DOMAIN ref) - 1
            /\ \A j \in DOMAIN ref \ {ret'.key} :
                GetResult(slabs1, mapRoot, j) = [value |-> <<ref[j]>>, err |-> NoError]
      ]_vars

\* a key has been removed from a list-mode group; the key of equal digests
\* and a key colliding at level 0 only are still held, with different values
C19_Witness ==
    /\ MapOpen
    /\ ret.op = "Remove"
    /\ ret.err = NoError
    /\ ret.key \in CollidingEveryLevel(Put(ref, ret.key, ret.old[2]))
    /\ Cardinality(Colliding(ref)) >= 2
    /\ \E j, k \in Colliding(ref) : ref[j] # ref[k]

\* C20: the slabs of the map, encoded by Encode and loaded by Load into a
\* new storage, are the slabs they were: the new storage holds the same ids,
\* each decoded slab has the content of the slab encoded and encodes to the
\* same bytes, and the map read from the new storage has the type info, the
\* count and, for every key, the Get result of the map encoded.
C20_EncodeDecodeIdentity ==
    loaded # NotLoaded =>
        \A slabs \in {MapView} :
        /\ loaded.root = mapRoot
        /\ DOMAIN loaded.slabs = DOMAIN slabs
        /\ \A id \in DOMAIN slabs :
            /\ CanDecode(Encode(slabs[id]))
            /\ loaded.slabs[id] = DecodeSlab(id, Encode(slabs[id]))
            /\ loaded.slabs[id] = slabs[id]
            /\ Encode(loaded.slabs[id]) = Encode(slabs[id])
        /\ MapType(loaded.slabs, loaded.root) = MapType(slabs, mapRoot)
        /\ MapCount(loaded.slabs, loaded.root) = MapCount(slabs, mapRoot)
        /\ \A k \in MapKeys :
            GetResult(loaded.slabs, loaded.root, k) = GetResult(slabs, mapRoot, k)
        /\ MapIterate(loaded.slabs, loaded.root) = MapIterate(slabs, mapRoot)

\* a meta root, its data slabs and a collision slab have been encoded and
\* loaded, an inline collision group among the elements
C20_Witness ==
    /\ loaded # NotLoaded
    /\ ret.op = "Load"
    /\ loaded.slabs[loaded.root].body.kind = "meta"
    /\ \E id \in DOMAIN loaded.slabs : loaded.slabs[id].body.kind = "collision"
    /\ \E id \in DOMAIN loaded.slabs :
        /\ loaded.slabs[id].body.kind \in {"data", "collision"}
        /\ \E i \in 1..Len(loaded.slabs[id].body.elems) :
            loaded.slabs[id].body.elems[i].e.kind = "inline"
    /\ MapCount(loaded.slabs, loaded.root) = MaxKeys

\* ------------------------------------------------------------------------
\* Properties of the storage: removal, read-your-writes, FastCommit
\* ------------------------------------------------------------------------
\* C27 (as claimed): when Commit or FastCommit returns without error,
\* Retrieve reports not-found for every owned id whose delta was a tombstone,
\* and if deltas is then empty every id in the cache is in the base storage.
C27_RemovedNotFoundAfterCommit ==
    [][((StepOf("Commit") \/ FastCommitReturns) /\ ret'.err = NoError) =>
        /\ \A id \in OwnedKeys(deltas) :
              deltas[id] = Nil =>
                  ~RetrieveOutcome(deltas', cache', baseStorage', id, FALSE).ret.found
        /\ deltas' = EmptyMap => \A id \in DOMAIN cache' : Has(baseStorage', id)]_vars

\* C28 (as claimed): the Retrieve(id) that directly follows a Store(id, slab)
\* that returned no error returns that slab, found, without error, whatever
\* autoCommit is and whatever was done to id before.
C28_ReadYourWrites ==
    [][(ret.op = "Store" /\ ret.err = NoError /\ StepOf("Retrieve") /\ ret'.id = ret.id) =>
        /\ ret'.err = NoError
        /\ ret'.found
        /\ ret'.slab = IF autoCommit THEN cache[ret.id] ELSE deltas[ret.id]]_vars

\* every key of the running FastCommit has its result in encSlabByID, no job
\* is queued or in an encoder's hand and no result waits in the channel
AllCollected ==
    /\ fc.i = Len(fc.keysWithOwners)
    /\ DOMAIN fc.encSlabByID = {fc.keysWithOwners[i] : i \in 1..Len(fc.keysWithOwners)}
    /\ jobs.buf = <<>>
    /\ results.buf = <<>>
    /\ \A w \in BagToSet(workers) : w.pc = "recv"

\* C29: while FastCommit runs, a step that calls the base storage or writes
\* the cache or deltas is taken by the caller after the results of all keys
\* have been collected, and it is the step in which FastCommit returns; the
\* steps of the encoders read deltas and leave the base storage, the cache
\* and deltas as they are.
C29_BaseCallsAfterCollection ==
    [][/\ (pc = "collect" /\ (calls' # calls \/ baseStorage' # baseStorage
                               \/ cache' # cache \/ deltas' # deltas)) =>
              (AllCollected /\ pc' = "idle" /\ workers' = workers)
       /\ (workers' # workers /\ pc = "collect") =>
              UNCHANGED <<baseStorage, cache, deltas, calls>>
       /\ \A w \in BagToSet(workers) :
              (w.pc = "recv" /\ jobs.buf # <<>> /\ workers' # workers /\ jobs' # jobs) =>
                  \E to \in BagToSet(workers') :
                      /\ to.id = Head(jobs.buf)
                      /\ to.data = IF Has(deltas, to.id) /\ deltas[to.id] # Nil
                                      /\ CanEncode(deltas[to.id])
                                   THEN Encode(deltas[to.id]) ELSE NoData]_vars

\* FastCommit with two encoders has committed a store and a removal
C29_Witness ==
    /\ ret.op = "FastCommit"
    /\ ret.err = NoError
    /\ ret.numWorkers = 2
    /\ pc = "idle"
    /\ Len(calls) = 2
    /\ calls[1].op # calls[2].op

\* the encoders and the caller of FastCommit are scheduled again and again
SpecFair ==
    /\ Spec
    /\ WF_vars(EncoderRecv)
    /\ WF_vars(EncoderSend)
    /\ WF_vars(CallerCollect)
    /\ WF_vars(CallerApply)

\* C30 (as claimed): a FastCommit that has started returns, whatever
\* numWorkers >= 0 and the deltas are.
C30_FastCommitTerminates == (pc = "collect") ~> (pc = "idle")

\* ------------------------------------------------------------------------
\* Properties of the default digester
\* ------------------------------------------------------------------------
\* C24 (as claimed): Digest(level) of the default digester with level >= 4
\* returns the digest 0 and no error.
C24_ListModeDigestZero ==
    [][\A level \in DigestLevels :
        (level >= 4 /\ DigesterDigest(level)) =>
            /\ digRet'.err = NoError
            /\ digRet'.digests = <<0>>]_vars

\* C25 (as claimed): the builder's Digest returns the hash-seed-uninitialized
\* error exactly when k0 = 0 and k1 = 0; with any other seed it returns a
\* digester when the hash input provider does not fail.
C25_ZeroPairRejected ==
    [][\A value \in HashValues :
        BuilderDigest(value, FALSE) =>
            /\ digRet'.err = HashSeedUninitializedError <=> (bdb.k0 = 0 /\ bdb.k1 = 0)
            /\ ~(bdb.k0 = 0 /\ bdb.k1 = 0) => (digRet'.err = NoError /\ bd' # NoDigester)]_vars

\* ------------------------------------------------------------------------
\* Properties of the array
\* ------------------------------------------------------------------------
\* the slabs of the tree under id, each with its level (0 for the root)
RECURSIVE SlabsUnder(_, _, _)
SlabsUnder(st, id, level) ==
    LET a == getArraySlab(st, id) IN
    IF IsData(a) THEN {[id |-> id, level |-> level]}
    ELSE {[id |-> id, level |-> level]}
         \cup UNION {SlabsUnder(st, a.childrenHeaders[i].id, level + 1) :
                        i \in 1..Len(a.childrenHeaders)}

ArraySlabs == SlabsUnder(array.st, array.root, 0)

\* the number of levels of the tree
ArrayLevels == Cardinality({s.level : s \in ArraySlabs})

\* Array._valid: the count it returns for the slab, the number of elements
\* in the data slabs below
RECURSIVE ComputedCount(_, _)
ComputedCount(st, id) ==
    LET a == getArraySlab(st, id) IN
    IF IsData(a) THEN Len(a.elements)
    ELSE LET counts == [i \in 1..Len(a.childrenHeaders) |->
                            [count |-> ComputedCount(st, a.childrenHeaders[i].id)]]
         IN  CountSum(counts)

\* computedSize of Array._valid
RECURSIVE ElementsByteSize(_)
ElementsByteSize(elements) ==
    IF elements = <<>> THEN 0
    ELSE ByteSize(Head(elements)) + ElementsByteSize(Tail(elements))

ComputedSize(a) ==
    IF IsData(a) THEN arrayDataSlabPrefixSize + ElementsByteSize(a.elements)
    ELSE Len(a.childrenHeaders) * arraySlabHeaderSize + arrayMetaDataSlabPrefixSize

\* validCount, validSize and validFill of Array._valid
validCount(st, id) == ComputedCount(st, id) = getArraySlab(st, id).header.count

validSize(st, id) == ComputedSize(getArraySlab(st, id)) = getArraySlab(st, id).header.size

validFill(st, id, level) ==
    level = 0 \/ (~IsFull(getArraySlab(st, id)) /\ ~IsUnderflow(getArraySlab(st, id)))

\* Array.valid: the root has the type info, no other slab has extra data,
\* and every slab is valid
ValidArray ==
    /\ getArraySlab(array.st, array.root).extraData = ArrayExtraData(arrayTypeInfo)
    /\ \A s \in ArraySlabs :
        /\ s.level > 0 => getArraySlab(array.st, s.id).extraData = <<>>
        /\ validFill(array.st, s.id, s.level)
        /\ validCount(array.st, s.id)
        /\ validSize(array.st, s.id)

\* the array holds what the tests' slice holds
ArrayAgreesWithValues ==
    ArrayOpen => /\ ValidArray
                 /\ ArrayIterate(array.st, array.root) = array.values
                 /\ ArrayCount(array.st, array.root) = Len(array.values)

\* C21: after any sequence of Append, Insert, Remove and Set, Iterate yields
\* exactly Count elements and Get(i) returns the i-th of them, for every
\* i < Count.
C21_GetAgreesWithIterate ==
    ArrayOpen =>
        \A it \in {ArrayIterate(array.st, array.root)} :
            /\ Len(it) = ArrayCount(array.st, array.root)
            /\ \A i \in 0..(Len(it) - 1) : ArrayGet(array.st, array.root, i) = it[i + 1]

\* a tree of three levels with both values in it, after a removal that
\* merged or rebalanced slabs
C21_Witness ==
    /\ ArrayOpen
    /\ arrRet = ArrayResult("Remove", NoError)
    /\ ArrayLevels = 3
    /\ \A v \in ArrayValues : \E i \in 1..Len(array.values) : array.values[i] = v
    /\ C21_GetAgreesWithIterate

\* the sum of the header counts of the data slabs under id
RECURSIVE LeafCountSum(_, _)
LeafCountSum(st, id) ==
    LET a == getArraySlab(st, id) IN
    IF IsData(a) THEN a.header.count
    ELSE CountSum([i \in 1..Len(a.childrenHeaders) |->
                      [count |-> LeafCountSum(st, a.childrenHeaders[i].id)]])

\* C22: after any sequence of Array operations every data slab's header
\* count is its number of elements and its header size is the data slab
\* prefix size plus the byte sizes of its elements; every meta slab's header
\* count is the sum of its children's element counts and its header size is
\* the meta prefix size plus the child header size times the number of
\* children; Count is the sum of the counts of the data slabs.
C22_CachedCountsAndSizesExact ==
    ArrayOpen =>
        /\ \A s \in ArraySlabs :
            LET a == getArraySlab(array.st, s.id) IN
            IF IsData(a) THEN
                /\ a.header.count = Len(a.elements)
                /\ a.header.size = arrayDataSlabPrefixSize + ElementsByteSize(a.elements)
            ELSE
                /\ validCount(array.st, s.id)
                /\ a.header.size = arrayMetaDataSlabPrefixSize
                                   + arraySlabHeaderSize * Len(a.childrenHeaders)
        /\ ArrayCount(array.st, array.root) = LeafCountSum(array.st, array.root)

\* a tree of three levels after a Set, with a data slab that holds elements
\* of both sizes
C22_Witness ==
    /\ ArrayOpen
    /\ arrRet = ArrayResult("Set", NoError)
    /\ ArrayLevels = 3
    /\ \E s \in ArraySlabs :
        LET a == getArraySlab(array.st, s.id) IN
        /\ IsData(a)
        /\ \A v \in ArrayValues : \E i \in 1..Len(a.elements) : a.elements[i] = v
    /\ C22_CachedCountsAndSizesExact

\* an element too large for a data slab of maxThreshold bytes
Oversize(e) == arrayDataSlabPrefixSize + ByteSize(e) > maxThreshold

\* C23: after any sequence of operations every data slab that is not the
\* root has a byte size from minThreshold to maxThreshold, or holds exactly
\* one oversize element; every meta slab that is not the root is neither
\* underflowing nor full.
C23_NonRootSlabsWithinThresholds ==
    ArrayOpen =>
        \A s \in ArraySlabs :
            LET a == getArraySlab(array.st, s.id) IN
            s.level > 0 =>
                \/ /\ minThreshold <= ComputedSize(a)
                   /\ ComputedSize(a) <= maxThreshold
                \/ /\ IsData(a)
                   /\ Len(a.elements) = 1
                   /\ Oversize(a.elements[1])

\* after a Remove: a tree with a data slab of exactly minThreshold bytes and
\* one of exactly maxThreshold bytes below the root
C23_Witness ==
    /\ ArrayOpen
    /\ arrRet = ArrayResult("Remove", NoError)
    /\ \E s, t \in ArraySlabs :
        /\ s.level > 0 /\ t.level > 0
        /\ IsData(getArraySlab(array.st, s.id)) /\ IsData(getArraySlab(array.st, t.id))
        /\ ComputedSize(getArraySlab(array.st, s.id)) = minThreshold
        /\ ComputedSize(getArraySlab(array.st, t.id)) = maxThreshold
    /\ C23_NonRootSlabsWithinThresholds

\* ------------------------------------------------------------------------
\* Properties of the map: large values
\* ------------------------------------------------------------------------
\* the has-pointer bit of the flag byte of the encoded slab
FlaggedHasPointer(slab) == (Encode(slab)[2] \div 64) % 2 = 1

\* the elements, at any depth of inline groups, hold the id of a Storable slab
RECURSIVE HoldsStorableID(_)
HoldsStorableID(elems) ==
    \E i \in 1..Len(elems) :
        \/ elems[i].e.kind = "single" /\ IsStorageIDStorable(elems[i].e.value)
        \/ elems[i].e.kind = "inline" /\ HoldsStorableID(elems[i].e.elems)

\* they hold the id of an external collision group
RECURSIVE HoldsExternalGroup(_)
HoldsExternalGroup(elems) ==
    \E i \in 1..Len(elems) :
        \/ elems[i].e.kind = "external"
        \/ elems[i].e.kind = "inline" /\ HoldsExternalGroup(elems[i].e.elems)

\* the slabs of the map that hold elements
ElementSlabs(slabs) ==
    {id \in DOMAIN slabs : slabs[id].body.kind \in {"data", "collision"}}

\* every large value set is in a Storable slab of its own, the element holds
\* the slab's id, and Get followed by StoredValue returns the value
LargeValuesStored(slabs) ==
    \A k \in DOMAIN ref :
        \E got \in {MapGet(slabs, mapRoot, k)} :
            /\ got # <<>>
            /\ IsLarge(ref[k]) <=> IsStorageIDStorable(got[2])
            /\ IsLarge(ref[k]) =>
                   /\ Has(slabs, StorableID(got[2]))
                   /\ slabs[StorableID(got[2])].body = StorableSlab(ref[k])
            /\ StoredValue(slabs, got[2]) = ref[k]

EncodingFailedWithJobsQueued ==
    /\ pc = "idle"
    /\ ret.op = "FastCommit"
    /\ ret.err.kind = "EncodingFailed"
    /\ ret.numWorkers = 1

\* C31 (as claimed): when the encoding of a slab fails in FastCommit while
\* other deltas are still queued, FastCommit returns that error, it has made
\* no call to the base storage, and in every interleaving no encoder sends
\* on the closed results channel, that is, no goroutine panics.
C31_EncodingErrorNoSendAfterClose ==
    EncodingFailedWithJobsQueued => (calls = <<>> /\ ~Panicked)

\* ------------------------------------------------------------------------
\* Properties of Retrieve for an id that is nowhere
\* ------------------------------------------------------------------------
\* the id is in neither deltas, cache nor base storage
Absent(d, c, b, id) == ~Has(d, id) /\ ~Has(c, id) /\ ~Has(b, id)

\* C32 (as claimed): Retrieve(id) for an id absent from deltas, from the cache
\* and from the base storage, whose base-storage call does not fail, reports
\* not-found without an error and leaves the cache without an entry for id, so
\* that a later Retrieve(id) still reports not-found without an error.
C32_AbsentRetrieveNotFound ==
    [][(/\ StepOf("Retrieve")
        /\ Absent(deltas, cache, baseStorage, ret'.id)
        /\ calls' # <<>> /\ calls'[1].ok) =>
        /\ ret'.err = NoError
        /\ ~ret'.found
        /\ ~Has(cache', ret'.id)
        /\ LET later == RetrieveOutcome(deltas', cache', baseStorage', ret'.id, FALSE).ret
           IN  later.err = NoError /\ ~later.found]_vars

\* ------------------------------------------------------------------------
\* Properties of the digester's cryptographic hash
\* ------------------------------------------------------------------------
\* a builder's Digest that handed out a digester
Built == digRet'.op = "Build" /\ digRet'.err = NoError /\ bd' # NoDigester

\* C33: the build and Digest(0) make no blake3.Sum256 call and leave the
\* digester's blake3Hash as it is (empty after the build); the first Digest
\* for a level in 1..3 makes the one call there is between a build and the
\* Reset, and Digest(1), Digest(2), Digest(3) return the first, second and
\* third word of the hash of the key's hash input.
C33_HashLazyAndOnce ==
    [][/\ Built => (hashed' = 0 /\ bd'.blake3Hash = emptyBlake3Hash)
       /\ \A level \in DigestLevels : DigesterDigest(level) =>
            /\ level = 0 => (hashed' = hashed /\ bd'.blake3Hash = bd.blake3Hash)
            /\ level \in 1..3 =>
                /\ hashed' = 1
                /\ hashed = 0 <=> bd.blake3Hash = emptyBlake3Hash
                /\ digRet'.err = NoError
                /\ digRet'.digests = <<Blake3Sum256(bd.msg)[level]>>
                /\ bd'.blake3Hash = Blake3Sum256(bd.msg)
       /\ hashed' <= 1]_vars

\* Digest(3) was answered for the second value with the third word of its
\* hash, one blake3.Sum256 call having been made since the build
C33_Witness ==
    /\ digRet.op = "Digest"
    /\ digRet.level = 3
    /\ digRet.digests = <<Blake3Sum256(bd.msg)[3]>>
    /\ hashed = 1
    /\ bd.blake3Hash # emptyBlake3Hash
    /\ bd.msg = HashInput(2)

\* C34: DigestPrefix(level) returns the digests Digest(0), ..., Digest(level-1)
\* return, in this order: nothing for level 0, level digests for
\* 1 <= level <= Levels(), and the hash-level error for level > Levels();
\* Levels() is 4.
C34_PrefixIsDigestsBelowLevel ==
    [][\A level \in DigestLevels : DigesterDigestPrefix(level) =>
        /\ basicLevels = 4
        /\ level = 0 => (digRet'.digests = <<>> /\ digRet'.err = NoError)
        /\ level \in 1..basicLevels =>
            /\ digRet'.err = NoError
            /\ Len(digRet'.digests) = level
            /\ \A i \in 1..level :
                /\ BasicDigest(bd, i - 1).err = NoError
                /\ digRet'.digests[i] = BasicDigest(bd, i - 1).digest
                /\ digRet'.digests[i] =
                      IF i = 1 THEN bd.circleHash64 ELSE Blake3Sum256(bd.msg)[i - 1]
        /\ level > basicLevels =>
            (digRet'.err = HashLevelError(level) /\ digRet'.digests = <<>>)]_vars

\* DigestPrefix(Levels()) returned the four digests of the second value
C34_Witness ==
    /\ digRet.op = "DigestPrefix"
    /\ digRet.level = basicLevels
    /\ digRet.err = NoError
    /\ Len(digRet.digests) = 4
    /\ digRet.digests[4] = Blake3Sum256(HashInput(2))[3]

\* ------------------------------------------------------------------------
\* Properties of the digester pool
\* ------------------------------------------------------------------------
\* the digest at a level of a digester that was never used, built with seed k0
\* for a value
FreshDigest(value, k0, level) ==
    BasicDigest([NewBasicDigester EXCEPT !.scratch = HashInput(value),
                                         !.msg = HashInput(value),
                                         !.circleHash64 = Hash64(HashInput(value), k0)],
                level).digest

\* the digests at the levels 0..3 of a digester
Digests(d) == [level \in 0..3 |-> BasicDigest(d, level).digest]

\* C35: whichever pooled or new instance the builder takes, the digests at
\* levels 0..3 of the digester it returns are those of a never-used digester
\* built with the same seed for the same value, that is the seeded hash and the
\* words of the cryptographic hash of the value's hash input; and a Digest or
\* DigestPrefix request returns these digests and changes none of them.
C35_PoolReuseKeepsDigests ==
    [][/\ \A value \in HashValues : (BuilderDigest(value, FALSE) /\ Built) =>
            /\ Digests(bd') = [level \in 0..3 |-> FreshDigest(value, bdb.k0, level)]
            /\ Digests(bd') = [level \in 0..3 |->
                  IF level = 0 THEN Hash64(HashInput(value), bdb.k0)
                  ELSE Blake3Sum256(HashInput(value))[level]]
       /\ \A level \in 0..3 : DigesterDigest(level) =>
            /\ digRet'.digests = <<Digests(bd)[level]>>
            /\ Digests(bd') = Digests(bd)
       /\ \A level \in 0..basicLevels : DigesterDigestPrefix(level) =>
            /\ digRet'.digests = [i \in 1..level |-> Digests(bd)[i - 1]]
            /\ Digests(bd') = Digests(bd)]_vars

\* the digester in hand is the instance that was last put into the pool, where
\* it had memoized the hash of the first value; built again for the second
\* value it has answered Digest(1) with the first word of that value's hash
C35_Witness ==
    /\ lastPut.msg = HashInput(1)
    /\ lastPut.blake3Hash = Blake3Sum256(HashInput(1))
    /\ basicDigesterPool = {}
    /\ bd # NoDigester
    /\ bd.msg = HashInput(2)
    /\ digRet.op = "Digest"
    /\ digRet.level = 1
    /\ digRet.digests = <<Blake3Sum256(HashInput(2))[1]>>

\* ------------------------------------------------------------------------
\* BasicSlabStorage.CheckHealth on the slabs of the map
\* ------------------------------------------------------------------------
HealthError(msg) == [kind |-> "CheckHealth", id |-> StorageIDUndefined, msg |-> msg]

\* the ids of the keys and values that are a StorageIDStorable, in the order
\* the element iterator yields the pairs
RECURSIVE StorableIDs(_)
StorableIDs(pairs) ==
    IF pairs = <<>> THEN <<>>
    ELSE (IF IsStorageIDStorable(Head(pairs)[1]) THEN <<StorableID(Head(pairs)[1])>> ELSE <<>>)
         \o (IF IsStorageIDStorable(Head(pairs)[2]) THEN <<StorableID(Head(pairs)[2])>> ELSE <<>>)
         \o StorableIDs(Tail(pairs))

\* the ids for which the loop over s.Slabs records the slab as parentOf: the
\* child headers of a meta slab, the StorageIDStorable keys and values of a
\* map data slab; the switch has one case for every map data slab, a
\* collision group's too
ParentOfEntries(slabs, id) ==
    LET body == slabs[id].body IN
    IF body.kind = "meta" THEN [i \in 1..Len(body.children) |-> body.children[i].id]
    ELSE IF body.kind \in {"data", "collision"}
    THEN StorableIDs(ElementsIterate(slabs, body.elems))
    ELSE <<>>

\* `leafs`: the Storable slabs and the data slabs without atLeastOneExternalSlab
HealthLeafs(slabs) ==
    {id \in DOMAIN slabs :
        \/ slabs[id].body.kind = "storable"
        \/ slabs[id].body.kind \in {"data", "collision"} /\ ParentOfEntries(slabs, id) = <<>>}

\* `parentOf` once the loop over s.Slabs has ended without an error
HealthParentOf(slabs) ==
    LET children == UNION {{ParentOfEntries(slabs, p)[i] :
                               i \in 1..Len(ParentOfEntries(slabs, p))} : p \in DOMAIN slabs}
    IN [c \in children |->
           CHOOSE p \in DOMAIN slabs :
               \E i \in 1..Len(ParentOfEntries(slabs, p)) : ParentOfEntries(slabs, p)[i] = c]

\* "two parents are captured for the slab": an id is recorded a second time
TwoParents(slabs) ==
    \E p, q \in DOMAIN slabs :
        \E i \in 1..Len(ParentOfEntries(slabs, p)), j \in 1..Len(ParentOfEntries(slabs, q)) :
            /\ p # q \/ i # j
            /\ ParentOfEntries(slabs, p)[i] = ParentOfEntries(slabs, q)[j]

\* the slabs on the way from id up to the slab without a parent, id included
RECURSIVE HealthClimb(_, _, _)
HealthClimb(parentOf, id, steps) ==
    IF steps = 0 \/ id \notin DOMAIN parentOf THEN <<id>>
    ELSE <<id>> \o HealthClimb(parentOf, parentOf[id], steps - 1)

\* CheckHealth(expectedNumberOfRootSlabs): the error it returns
CheckHealth(slabs, expectedNumberOfRootSlabs) ==
    IF \E id \in DOMAIN slabs :
          slabs[id].body.kind \notin {"storable", "data", "collision", "meta"}
    THEN HealthError("unknown type of slab")
    ELSE IF TwoParents(slabs) THEN HealthError("two parents are captured for the slab")
    ELSE
        LET parentOf == HealthParentOf(slabs)
            climbs == {HealthClimb(parentOf, leaf, Cardinality(DOMAIN slabs)) :
                          leaf \in HealthLeafs(slabs)}
            visited == UNION {{c[i] : i \in 1..Len(c)} : c \in climbs}
            rootsMap == {c[Len(c)] : c \in climbs}
        IN  IF \E c \in climbs : \E i \in 1..(Len(c) - 1) :
                   slabs[c[i]].id[1] # slabs[c[i + 1]].id[1]
            THEN HealthError("parent and child are not owned by the same account")
            ELSE IF Cardinality(visited) # Cardinality(DOMAIN slabs)
            THEN HealthError("an slab was not reachable from leafs")
            ELSE IF Cardinality(rootsMap) # expectedNumberOfRootSlabs
            THEN HealthError("number of root slabs doesn't match expected")
            ELSE NoError

\* the maps created in the storage
CollectionsCreated == IF mapRoot = StorageIDUndefined THEN 0 ELSE 1

\* C36 (as claimed): after any sequence of operations of the map CheckHealth
\* finds every non-root slab referenced by exactly one parent slab, every
\* child at the Address of its parent, every slab reachable from a root, and
\* as many root slabs as collections were created.
C36_StorageHealthy ==
    CheckHealth(OpenStorage.slabs, CollectionsCreated) = NoError


\* the ids the elements of a slab hold themselves, at any depth of inline
\* groups: external collision groups and StorageIDStorable values
RECURSIVE HeldIDs(_)
HeldIDs(elems) ==
    IF elems = <<>> THEN <<>>
    ELSE LET e == Head(elems).e
         IN (IF e.kind = "external" THEN <<e.id>>
             ELSE IF e.kind = "inline" THEN HeldIDs(e.elems)
             ELSE IF IsStorageIDStorable(e.value) THEN <<StorableID(e.value)>>
             ELSE <<>>)
            \o HeldIDs(Tail(elems))

\* every handle a slab holds to another slab, a collision group's included
HandlesOf(slabs, id) ==
    LET body == slabs[id].body IN
    IF body.kind = "meta" THEN [i \in 1..Len(body.children) |-> body.children[i].id]
    ELSE IF body.kind \in {"data", "collision"} THEN HeldIDs(body.elems)
    ELSE <<>>

\* the slabs reached from the slabs of ids by following handles
RECURSIVE ReachedFrom(_, _, _)
ReachedFrom(slabs, ids, steps) ==
    LET next == ids \cup UNION {{HandlesOf(slabs, p)[i] : i \in 1..Len(HandlesOf(slabs, p))} :
                                   p \in ids \cap DOMAIN slabs}
    IN IF steps = 0 \/ next = ids THEN ids ELSE ReachedFrom(slabs, next, steps - 1)

\* With the handle of an external collision group counted as a reference:
\* every slab but the root is held by exactly one slab, at the same Address,
\* and the slabs reached from the root are the slabs of the storage.
TreeShaped(slabs, root) ==
    /\ \A c \in DOMAIN slabs \ {root} :
          Cardinality({<<p, i>> \in (DOMAIN slabs) \X (1..(MaxKeys + 2)) :
                          i <= Len(HandlesOf(slabs, p)) /\ HandlesOf(slabs, p)[i] = c}) = 1
    /\ \A p \in DOMAIN slabs : \A i \in 1..Len(HandlesOf(slabs, p)) :
          HandlesOf(slabs, p)[i][1] = p[1] /\ HandlesOf(slabs, p)[i] # root
    /\ ReachedFrom(slabs, {root}, Cardinality(DOMAIN slabs)) = DOMAIN slabs

MapTreeShaped == MapOpen => TreeShaped(OpenStorage.slabs, mapRoot)


\* ------------------------------------------------------------------------
\* Slabs left in the storage by Set and Remove
\* ------------------------------------------------------------------------
\* a map given small and large values, and keys removed
NextMapRemoveLarge ==
    \/ OrderedMapNew
    \/ \E k \in MapKeys : \E v \in {v \in MapValues : \A w \in MapValues : v <= w} :
          OrderedMapSet(k, v)
    \/ \E k \in MapKeys : OrderedMapSetLarge(k, LargeValue)
    \/ \E k \in MapKeys : OrderedMapRemove(k)

SpecMapRemoveLarge == Init /\ [][NextMapRemoveLarge]_vars

\* the Storable slabs the elements of the map hold
ElementStorables(slabs, root) ==
    ReachedFrom(slabs, {root}, Cardinality(DOMAIN slabs)) \cap StorableSlabs(slabs)

ArrayRootShape(st, rootID) ==
    LET root == getArraySlab(st, rootID) IN
    /\ IsData(root) \/ Len(root.childrenHeaders) >= 2
    /\ root.extraData # <<>>
    /\ \A s \in SlabsUnder(st, rootID, 0) :
          s.level > 0 => getArraySlab(st, s.id).extraData = <<>>
    /\ \A id \in DOMAIN st.slabs \ {rootID} : getArraySlab(st, id).extraData = <<>>

\* the same of the root of the map
MapRootShape(slabs, root) ==
    /\ \/ slabs[root].body.kind = "data"
       \/ (slabs[root].body.kind = "meta" /\ Len(slabs[root].body.children) >= 2)
    /\ slabs[root].body.extra # <<>>
    /\ \A id \in DOMAIN slabs \ {root} :
          slabs[id].body.kind \in {"data", "meta"} => slabs[id].body.extra = <<>>

MapRootKept == MapOpen => MapRootShape(OpenStorage.slabs, mapRoot)

\* C38: in every reachable state the root slab is a data slab or a meta slab
\* with at least 2 children (a removal that leaves a meta root with a single
\* child has that child replace the root), and only the root slab carries
\* extra data.
C38_RootDataOrTwoChildren ==
    ArrayOpen => ArrayRootShape(array.st, array.root)

\* a Remove has left the root a data slab with elements in an array whose
\* root had been split before: the last child took the root's place and id
C38_Witness ==
    /\ ArrayOpen
    /\ arrRet = ArrayResult("Remove", NoError)
    /\ IsData(getArraySlab(array.st, array.root))
    /\ array.values # <<>>
    /\ DOMAIN array.st.slabs = {array.root}
    /\ array.st.index > array.root[2]


\* ------------------------------------------------------------------------
\* The child headers of a meta slab
\* ------------------------------------------------------------------------
\* the index of the first element below the i-th child of a meta slab, as
\* the meta slab finds it: the counts of the children before it
FirstIndex(headers, i) == CountSum(SubSeq(headers, 1, i - 1))

\* the child headers of a meta slab of the array: each is the header of the
\* child in the storage, with the size and the count computed from what the
\* child holds, and the first indexes go up from child to child
ArrayChildrenHeadersExact(st, a) ==
    /\ \A i \in 1..Len(a.childrenHeaders) :
          \E child \in {getArraySlab(st, a.childrenHeaders[i].id)} :
              /\ a.childrenHeaders[i] = child.header
              /\ a.childrenHeaders[i].size = ComputedSize(child)
              /\ a.childrenHeaders[i].count = ComputedCount(st, a.childrenHeaders[i].id)
    /\ \A i, j \in 1..Len(a.childrenHeaders) :
          i < j => FirstIndex(a.childrenHeaders, i) < FirstIndex(a.childrenHeaders, j)

\* the child headers of the meta slab of a map: each has the first hkey and
\* the size of the child in the storage, and the first hkeys go up
MapChildrenHeadersExact(slabs, body) ==
    /\ \A i \in 1..Len(body.children) :
          /\ slabs[body.children[i].id].body.elems # <<>>
          /\ body.children[i].firstKey = slabs[body.children[i].id].body.elems[1].hkey
          /\ body.children[i].size = ElementsSize(slabs[body.children[i].id].body.elems)
    /\ \A i, j \in 1..Len(body.children) :
          i < j => body.children[i].firstKey < body.children[j].firstKey

MapChildrenOrdered ==
    MapOpen =>
        \A id \in DOMAIN OpenStorage.slabs :
            OpenStorage.slabs[id].body.kind = "meta" =>
                MapChildrenHeadersExact(OpenStorage.slabs, OpenStorage.slabs[id].body)

RECURSIVE NextChain(_, _, _)
NextChain(slabs, id, steps) ==
    IF id = StorageIDUndefined \/ steps = 0 \/ ~Has(slabs, id) THEN <<>>
    ELSE <<id>> \o NextChain(slabs, slabs[id].body.next, steps - 1)

\* the data slabs of the map with this root: the root, or its children
MapDataSlabs(slabs, root) ==
    IF slabs[root].body.kind = "data" THEN {root}
    ELSE {slabs[root].body.children[i].id : i \in 1..Len(slabs[root].body.children)}

\* the hkeys of the elements of the slabs of a chain, in the chain's order
RECURSIVE ChainHkeys(_, _)
ChainHkeys(slabs, chain) ==
    IF chain = <<>> THEN <<>>
    ELSE [i \in 1..Len(slabs[Head(chain)].body.elems) |->
             slabs[Head(chain)].body.elems[i].hkey]
         \o ChainHkeys(slabs, Tail(chain))

\* following next from the leftmost data slab visits every data slab of the
\* map once, passes the elements in ascending order of hkey, and ends at
\* the undefined id
ChainVisitsAll(slabs, root) ==
    \E chain \in {NextChain(slabs, FirstLeaf(slabs, root), Cardinality(DOMAIN slabs) + 1)} :
        /\ chain # <<>>
        /\ Len(chain) = Cardinality(MapDataSlabs(slabs, root))
        /\ {chain[i] : i \in 1..Len(chain)} = MapDataSlabs(slabs, root)
        /\ \A i \in 1..Len(chain) : slabs[chain[i]].body.kind = "data"
        /\ slabs[chain[Len(chain)]].body.next = StorageIDUndefined
        /\ \E hkeys \in {ChainHkeys(slabs, chain)} :
              \A i, j \in 1..Len(hkeys) : i < j => hkeys[i] < hkeys[j]
        /\ slabs[root].body.kind = "meta" =>
              chain = [i \in 1..Len(slabs[root].body.children) |->
                          slabs[root].body.children[i].id]

ArrayChainVisitsAll ==
    ArrayOpen =>
        \E chain \in {NextChain(array.st.slabs, firstArrayDataSlab(array.st, array.root),
                                Cardinality(DOMAIN array.st.slabs) + 1)} :
            /\ chain # <<>>
            /\ Len(chain) = Cardinality({s \in ArraySlabs : IsData(getArraySlab(array.st, s.id))})
            /\ {chain[i] : i \in 1..Len(chain)}
                 = {s.id : s \in {s \in ArraySlabs : IsData(getArraySlab(array.st, s.id))}}
            /\ getArraySlab(array.st, chain[Len(chain)]).next = StorageIDUndefined
            /\ ArrayIterate(array.st, array.root) = array.values

====
